---- MODULE Spec2Model ----
(***************************************************************************)
(* The in-memory table of the write buffer (write_buffer/src/table.rs):    *)
(* a Table owns typed, nullable columns keyed by the dictionary symbol of  *)
(* the column name.  Rows are appended with an evolving schema, and        *)
(* could_match_predicate decides whether a table can be skipped for a      *)
(* partition predicate.                                                    *)
(*                                                                         *)
(* Conventions.  An Option<T> is a sequence of length 0 (None) or 1        *)
(* (Some).  A Result<T> is a record [ok, v, err]; a panic is the Result    *)
(* whose err is "panic".  Positions in `columns` are 1-based here, where   *)
(* the Rust code is 0-based: the position given to a new column is         *)
(* Len(columns) + 1, the Rust columns.len().                               *)
(***************************************************************************)
EXTENDS Integers, Sequences, FiniteSets, TLC

VARIABLES
    dictionary,         \* Dictionary of the partition: interned strings, symbol = position
    id,                 \* Table::id
    column_id_to_index, \* Table::column_id_to_index
    columns,            \* Table::columns
    op,                 \* the last operation called on the table
    result,             \* what the last operation returned
    rows_appended,      \* history: number of append_row calls that returned Ok
    row_failed,         \* history: TRUE once an append_row call has not returned Ok
    prefix_columns,     \* reorder_prefix: the prefix_columns it is given
    tag_columns         \* reorder_prefix: the tag_columns it is given

vars == <<dictionary, id, column_id_to_index, columns, op, result, rows_appended, row_failed,
          prefix_columns, tag_columns>>

(***************************************************************************)
(* Bounds of the model.                                                    *)
(***************************************************************************)
MaxRowCount == 2      \* append_rows is called while row_count() and rows_appended are below this
MaxRowValues == 2     \* values per row
MaxTime == 1          \* I64 values are 1..MaxTime, time ranges lie in 0..MaxTime + 1
MaxSymbol == 3        \* predicates name the symbols 1..MaxSymbol
MaxSetSize == 1       \* size of the symbol sets of a whole predicate
MaxNames == 3         \* length of the lists of names given to reorder_prefix
MaxPlanRowCount == 3  \* rows of a table that plans are built for
MaxPlanTime == 2      \* times of those rows are 1..MaxPlanTime
MaxGroupColumns == 2  \* length of the group_columns given to grouped_series_set_plan

(***************************************************************************)
(* Option and Result.                                                      *)
(***************************************************************************)
None == <<>>
Some(v) == <<v>>
IsSome(o) == Len(o) = 1
Unwrap(o) == o[1]

Ok(v) == [ok |-> TRUE, v |-> v, err |-> ""]
Err(e) == [ok |-> FALSE, v |-> FALSE, err |-> e]
Panic == Err("panic")
IsErr(r) == ~r.ok /\ r.err # "panic"
IsPanic(r) == ~r.ok /\ r.err = "panic"

TIME_COLUMN_NAME == "time"
TableName == "h2o"

(***************************************************************************)
(* The rows of the write-ahead encoding: a row has an optional vector of   *)
(* values, a value an optional column name and one typed value.            *)
(***************************************************************************)
ColumnNames == {"city", "temp", TIME_COLUMN_NAME}
ColumnKinds == {"Tag", "String", "F64", "I64", "Bool"}

\* The typed values the rows draw from.  The table treats the kinds String,
\* F64 and Bool alike (not Tag, not I64): F64 stands for them in the rows.
\* "NONE" is a value whose union holds none of the five kinds.
TypedValues ==
    {[value_type |-> "Tag", value |-> "LA"],
     [value_type |-> "F64", value |-> 70],
     [value_type |-> "NONE", value |-> 0]}
    \cup {[value_type |-> "I64", value |-> t] : t \in 1..MaxTime}

Values ==
    {[column |-> Some(n), value_type |-> tv.value_type, value |-> tv.value] :
        n \in ColumnNames, tv \in TypedValues}
    \cup {[column |-> None, value_type |-> "I64", value |-> 1]}

RECURSIVE SeqsUpTo(_, _)
SeqsUpTo(S, n) ==
    IF n = 0 THEN {<<>>}
    ELSE LET shorter == SeqsUpTo(S, n - 1)
         IN  shorter \cup {Append(q, x) : q \in {q \in shorter : Len(q) = n - 1}, x \in S}

RowValues == SeqsUpTo(Values, MaxRowValues)
ShortRowValues == {vs \in RowValues : Len(vs) <= 1}

Rows == {[values |-> None]} \cup {[values |-> Some(vs)] : vs \in RowValues}
ShortRows == {[values |-> None]} \cup {[values |-> Some(vs)] : vs \in ShortRowValues}

\* append_rows is given one row at a time.
Batches == {<<row>> : row \in Rows}
ShortBatches == {<<row>> : row \in ShortRows}

\* append_rows is given up to MaxBatch rows of at most one value, for city or
\* time or a column without name.
MaxBatch == 3
BatchRows ==
    {row \in ShortRows :
        IsSome(row.values) =>
            \A i \in 1..Len(Unwrap(row.values)) :
                /\ Unwrap(row.values)[i].column \in {None, Some("city"), Some(TIME_COLUMN_NAME)}
                /\ Unwrap(row.values)[i].value_type \in {"Tag", "I64"}}
RowBatches == SeqsUpTo(BatchRows, MaxBatch)

(***************************************************************************)
(* Dictionary: the symbol of a string is its position.                     *)
(***************************************************************************)
lookup_value(dict, value) ==
    IF \E i \in 1..Len(dict) : dict[i] = value
    THEN Some(CHOOSE i \in 1..Len(dict) : dict[i] = value)
    ELSE None

lookup_value_or_insert(dict, value) ==
    IF \E i \in 1..Len(dict) : dict[i] = value
    THEN [dictionary |-> dict, id |-> CHOOSE i \in 1..Len(dict) : dict[i] = value]
    ELSE [dictionary |-> Append(dict, value), id |-> Len(dict) + 1]

(***************************************************************************)
(* Column: a kind and a vector of optional values.  A tag is stored as     *)
(* the symbol of its string.                                               *)
(***************************************************************************)
len(col) == Len(col.vals)

Nulls(n) == [i \in 1..n |-> None]

NewColumn(kind, capacity, v, dict) ==
    [ok |-> TRUE, dictionary |-> dict,
     column |-> [kind |-> kind, vals |-> Append(Nulls(capacity), Some(v))]]

NewTagColumn(capacity, d) == NewColumn("Tag", capacity, d.id, d.dictionary)

with_value(dict, capacity, value) ==
    IF value.value_type = "Tag"
    THEN NewTagColumn(capacity, lookup_value_or_insert(dict, value.value))
    ELSE IF value.value_type \in ColumnKinds
    THEN NewColumn(value.value_type, capacity, value.value, dict)
    ELSE [ok |-> FALSE, dictionary |-> dict, column |-> [kind |-> "Tag", vals |-> <<>>]]

Pushed(col, v, dict) ==
    [ok |-> TRUE, dictionary |-> dict, column |-> [col EXCEPT !.vals = Append(@, Some(v))]]

PushedTag(col, d) == Pushed(col, d.id, d.dictionary)

push(dict, col, value) ==
    IF value.value_type # col.kind
    THEN [ok |-> FALSE, dictionary |-> dict, column |-> col]
    ELSE IF col.kind = "Tag"
    THEN PushedTag(col, lookup_value_or_insert(dict, value.value))
    ELSE Pushed(col, value.value, dict)

push_none_if_len_equal(col, n) ==
    IF len(col) = n THEN [col EXCEPT !.vals = Append(@, None)] ELSE col

(***************************************************************************)
(* Table.  The operations take the table and the dictionary as a record    *)
(* `self` and return the record they leave, with the Result in `result`.   *)
(***************************************************************************)
Self == [dictionary |-> dictionary, id |-> id,
         column_id_to_index |-> column_id_to_index, columns |-> columns]

row_count(self) == IF self.columns = <<>> THEN 0 ELSE len(self.columns[1])

\* push_to_column without the ? on what push returned.
push_to_column_unchecked(self, idx, pushed) ==
    IF pushed.ok
    THEN [self |-> [self EXCEPT !.dictionary = pushed.dictionary,
                                !.columns[idx] = pushed.column],
          result |-> Ok(TRUE)]
    ELSE [self |-> self, result |-> Ok(TRUE)]

\* The Some arm of the match, then column.push(..)?: `pushed` is what push returned.
push_to_column(self, idx, pushed) ==
    IF pushed.ok
    THEN [self |-> [self EXCEPT !.dictionary = pushed.dictionary,
                                !.columns[idx] = pushed.column],
          result |-> Ok(TRUE)]
    ELSE [self |-> self, result |-> Err("ColumnError")]

\* &mut self.columns[*idx] panics when idx is out of bounds.
append_to_existing(self, idx, value) ==
    IF idx > Len(self.columns)
    THEN [self |-> self, result |-> Panic]
    ELSE push_to_column(self, idx, push(self.dictionary, self.columns[idx], value))

\* The None arm: the index entry is inserted before with_value is evaluated.
insert_index(self, column_id) ==
    [self EXCEPT !.column_id_to_index = (column_id :> (Len(self.columns) + 1)) @@ @]

\* push_new_column putting the new column ahead of the others.
push_new_column_first(self, created) ==
    IF created.ok
    THEN [self |-> [self EXCEPT !.dictionary = created.dictionary,
                                !.columns = <<created.column>> \o @],
          result |-> Ok(TRUE)]
    ELSE [self |-> self, result |-> Err("CreatingFromWal")]

push_new_column(self, created) ==
    IF created.ok
    THEN [self |-> [self EXCEPT !.dictionary = created.dictionary,
                                !.columns = Append(@, created.column)],
          result |-> Ok(TRUE)]
    ELSE [self |-> self, result |-> Err("CreatingFromWal")]

append_to_column_id(self, column_id, n, value) ==
    IF column_id \in DOMAIN self.column_id_to_index
    THEN append_to_existing(self, self.column_id_to_index[column_id], value)
    ELSE push_new_column(insert_index(self, column_id),
                         with_value(self.dictionary, n, value))

append_looked_up(self, d, n, value) ==
    append_to_column_id([self EXCEPT !.dictionary = d.dictionary], d.id, n, value)

\* One pass of the loop over the values of a row.
append_value(self, n, value) ==
    IF ~IsSome(value.column)
    THEN [self |-> self, result |-> Err("ColumnNameNotInRow")]
    ELSE append_looked_up(
            self, lookup_value_or_insert(self.dictionary, Unwrap(value.column)), n, value)

RECURSIVE append_values(_, _, _)
append_values_after(r, n, values) ==
    IF r.result.ok THEN append_values(r.self, n, values) ELSE r

append_values(self, n, values) ==
    IF values = <<>>
    THEN [self |-> self, result |-> Ok(TRUE)]
    ELSE append_values_after(append_value(self, n, Head(values)), n, Tail(values))

\* pad_columns reached after a failed value too.
pad_columns_always(r, n) ==
    [self |-> [r.self EXCEPT !.columns =
                    [i \in 1..Len(@) |-> push_none_if_len_equal(@[i], n)]],
     result |-> r.result]

\* The loop that makes all the columns the same length, reached when no value failed.
pad_columns(r, n) ==
    IF r.result.ok
    THEN [self |-> [r.self EXCEPT !.columns =
                        [i \in 1..Len(@) |-> push_none_if_len_equal(@[i], n)]],
          result |-> Ok(TRUE)]
    ELSE r

append_row(self, values) ==
    pad_columns(append_values(self, row_count(self), values), row_count(self))

\* `count` is the number of append_row calls that returned Ok.
RECURSIVE append_rows_from(_, _, _)
\* append_rows_after with the loop going on to the later rows after a failed row.
append_rows_after_continuing(r, rows, count) ==
    IF r.result.ok
    THEN append_rows_from(r.self, rows, count + 1)
    ELSE [append_rows_from(r.self, rows, count) EXCEPT !.result = r.result, !.failed = TRUE]

append_rows_after(r, rows, count) ==
    IF r.result.ok
    THEN append_rows_from(r.self, rows, count + 1)
    ELSE [self |-> r.self, result |-> r.result, count |-> count, failed |-> TRUE]

\* append_rows_from with a row of absent values appended as an empty row.
append_rows_from_unskipped(self, rows, count) ==
    IF rows = <<>>
    THEN [self |-> self, result |-> Ok(TRUE), count |-> count, failed |-> FALSE]
    ELSE IF IsSome(Head(rows).values)
    THEN append_rows_after(append_row(self, Unwrap(Head(rows).values)), Tail(rows), count)
    ELSE append_rows_after(append_row(self, <<>>), Tail(rows), count)

append_rows_from(self, rows, count) ==
    IF rows = <<>>
    THEN [self |-> self, result |-> Ok(TRUE), count |-> count, failed |-> FALSE]
    ELSE IF IsSome(Head(rows).values)
    THEN append_rows_after(append_row(self, Unwrap(Head(rows).values)), Tail(rows), count)
    ELSE append_rows_from(self, Tail(rows), count)

append_rows(self, rows) == append_rows_from(self, rows, 0)

(***************************************************************************)
(* Pruning.  A PartitionPredicate is a record of its fields: range an      *)
(* Option of [start, end], the symbol sets Options of sets of symbols,     *)
(* required_columns an Option of a PartitionIdSet.                         *)
(***************************************************************************)
Symbols == 1..MaxSymbol

TimestampRanges ==
    {[start |-> s, end |-> e] : s \in 0..MaxTime, e \in 1..(MaxTime + 1)}

OptionalSets(S) == {None} \cup {Some(x) : x \in S}

SymbolSets == SUBSET Symbols
SmallSymbolSets == {S \in SymbolSets : Cardinality(S) <= MaxSetSize}

AtLeastOneMissing == [kind |-> "AtLeastOneMissing", symbols |-> {}]
Present(symbols) == [kind |-> "Present", symbols |-> symbols]
PartitionIdSets(sets) == {AtLeastOneMissing} \cup {Present(S) : S \in sets}

Predicates ==
    [range : OptionalSets(TimestampRanges),
     time_column_id : Symbols,
     field_restriction : OptionalSets(SmallSymbolSets),
     table_name_predicate : OptionalSets(SmallSymbolSets),
     required_columns : OptionalSets(PartitionIdSets(SmallSymbolSets))]

\* Table::column: the expect on a missing id, and the index into columns, panic.
column(self, column_id) ==
    IF column_id \notin DOMAIN self.column_id_to_index
    THEN Panic
    ELSE IF self.column_id_to_index[column_id] > Len(self.columns)
    THEN Panic
    ELSE Ok(self.columns[self.column_id_to_index[column_id]])

\* Column::has_i64_range.
has_i64_range(col, start, end) ==
    IF col.kind = "I64"
    THEN Ok(\E i \in 1..Len(col.vals) :
                /\ IsSome(col.vals[i])
                /\ start <= Unwrap(col.vals[i])
                /\ Unwrap(col.vals[i]) < end)
    ELSE Err("InternalTypeMismatchForTimePredicate")

matches_column_selection(self, column_selection) ==
    IF IsSome(column_selection)
    THEN \E column_id \in DOMAIN self.column_id_to_index :
            column_id \in Unwrap(column_selection)
    ELSE TRUE

\* matches_table_name_predicate with an empty set taken as no restriction.
matches_table_name_predicate_or_empty(self, table_name_predicate) ==
    IF IsSome(table_name_predicate) /\ Unwrap(table_name_predicate) # {}
    THEN self.id \in Unwrap(table_name_predicate)
    ELSE TRUE

matches_table_name_predicate(self, table_name_predicate) ==
    IF IsSome(table_name_predicate)
    THEN self.id \in Unwrap(table_name_predicate)
    ELSE TRUE

\* has_i64_range(..).context(ColumnPredicateEvaluation): `r` is what it returned.
in_column_range(r) == IF r.ok THEN r ELSE Err("ColumnPredicateEvaluation")

\* time_column_has_range with the end of the range included.
time_column_has_range_inclusive(time_column, range) ==
    IF ~time_column.ok
    THEN time_column
    ELSE in_column_range(has_i64_range(time_column.v, range.start, range.end + 1))

\* self.column(time_column_id)? then has_i64_range: a panic of column goes on.
time_column_has_range(time_column, range) ==
    IF ~time_column.ok
    THEN time_column
    ELSE in_column_range(has_i64_range(time_column.v, range.start, range.end))

matches_timestamp_predicate(self, partition_predicate) ==
    IF ~IsSome(partition_predicate.range)
    THEN Ok(TRUE)
    ELSE time_column_has_range(column(self, partition_predicate.time_column_id),
                               Unwrap(partition_predicate.range))

\* has_columns asking for one of the symbols only.
has_columns_any(self, required) ==
    IF IsSome(required)
    THEN IF Unwrap(required).kind = "AtLeastOneMissing"
         THEN FALSE
         ELSE \E symbol \in Unwrap(required).symbols :
                symbol \in DOMAIN self.column_id_to_index
    ELSE TRUE

has_columns(self, required) ==
    IF IsSome(required)
    THEN IF Unwrap(required).kind = "AtLeastOneMissing"
         THEN FALSE
         ELSE \A symbol \in Unwrap(required).symbols :
                symbol \in DOMAIN self.column_id_to_index
    ELSE TRUE

\* The && chain without its last operand.
without_has_columns(self, t, required) == t

\* The last two operands of the && chain: `t` is what the time check returned,
\* and its ? returns the Err before has_columns is reached.
and_has_columns(self, t, required) ==
    IF ~t.ok THEN t
    ELSE IF ~t.v THEN Ok(FALSE)
    ELSE Ok(has_columns(self, required))

\* The && chain with the time check made before the field and the table-name checks.
could_match_predicate_time_first(self, partition_predicate) ==
    IF ~matches_timestamp_predicate(self, partition_predicate).ok
    THEN matches_timestamp_predicate(self, partition_predicate)
    ELSE IF ~matches_column_selection(self, partition_predicate.field_restriction)
    THEN Ok(FALSE)
    ELSE IF ~matches_table_name_predicate(self, partition_predicate.table_name_predicate)
    THEN Ok(FALSE)
    ELSE and_has_columns(self, matches_timestamp_predicate(self, partition_predicate),
                         partition_predicate.required_columns)

\* The && chain stops at the first false operand.
could_match_predicate(self, partition_predicate) ==
    IF ~matches_column_selection(self, partition_predicate.field_restriction)
    THEN Ok(FALSE)
    ELSE IF ~matches_table_name_predicate(self, partition_predicate.table_name_predicate)
    THEN Ok(FALSE)
    ELSE and_has_columns(self, matches_timestamp_predicate(self, partition_predicate),
                         partition_predicate.required_columns)

(***************************************************************************)
(* The state machine.                                                      *)
(***************************************************************************)
Init ==
    /\ dictionary = <<TableName>>
    /\ id = 1
    /\ column_id_to_index = <<>>
    /\ columns = <<>>
    /\ op = "new"
    /\ result = Ok(TRUE)
    /\ rows_appended = 0
    /\ row_failed = FALSE
    /\ prefix_columns = <<>>
    /\ tag_columns = <<>>

\* A panic ends the run.
Running == ~IsPanic(result)

\* The table and the dictionary as append_rows left them, and what it returned.
Returned(r) ==
    /\ dictionary' = r.self.dictionary
    /\ column_id_to_index' = r.self.column_id_to_index
    /\ columns' = r.self.columns
    /\ result' = r.result
    /\ rows_appended' = rows_appended + r.count
    /\ row_failed' = (row_failed \/ r.failed)

AppendRowsFrom(batches) ==
    /\ Running
    /\ rows_appended < MaxRowCount
    /\ row_count(Self) < MaxRowCount
    /\ \A i \in 1..Len(columns) : len(columns[i]) <= MaxRowCount
    /\ \E rows \in batches : Returned(append_rows(Self, rows))
    /\ op' = "append_rows"
    /\ UNCHANGED <<id, prefix_columns, tag_columns>>

AppendRows == AppendRowsFrom(Batches)

AppendShortRows == AppendRowsFrom(ShortBatches)

AppendRowBatches == AppendRowsFrom(RowBatches)

CouldMatchPredicate ==
    /\ Running
    /\ \E partition_predicate \in Predicates :
        result' = could_match_predicate(Self, partition_predicate)
    /\ op' = "could_match_predicate"
    /\ UNCHANGED <<dictionary, id, column_id_to_index, columns, rows_appended, row_failed,
                   prefix_columns, tag_columns>>

Next == AppendRows

Spec == Init /\ [][Next]_vars

\* Appending several rows in one call.
NextBatch == AppendRowBatches

SpecBatch == Init /\ [][NextBatch]_vars

\* Pruning a table built from rows of at most one value.
NextPrune == AppendShortRows \/ CouldMatchPredicate

SpecPrune == Init /\ [][NextPrune]_vars
(***************************************************************************)
(* What the properties speak of.                                           *)
(***************************************************************************)
\* The position the column index gives the name of `value`, if any.
HasPosition(self, value) ==
    /\ IsSome(value.column)
    /\ IsSome(lookup_value(self.dictionary, Unwrap(value.column)))
    /\ Unwrap(lookup_value(self.dictionary, Unwrap(value.column)))
            \in DOMAIN self.column_id_to_index

PositionOf(self, value) ==
    self.column_id_to_index[Unwrap(lookup_value(self.dictionary, Unwrap(value.column)))]

NamesPosition(self, value, i) == HasPosition(self, value) /\ PositionOf(self, value) = i

\* The entry a column holds for `value`.
Stored(dict, value) ==
    IF value.value_type = "Tag"
    THEN Some(Unwrap(lookup_value(dict, value.value)))
    ELSE Some(value.value)

EqualLengths(self) ==
    \A i, j \in 1..Len(self.columns) : len(self.columns[i]) = len(self.columns[j])

\* The table when the k-th value of the row is reached.
Reached(vs, k) == append_values(Self, row_count(Self), SubSeq(vs, 1, k - 1))

\* C1: after each append_rows call, all calls so far having returned Ok, every
\* column has the same length, the number of rows appended so far.
C1_ColumnLengthIsRowsAppended ==
    ~row_failed => \A i \in 1..Len(columns) : len(columns[i]) = rows_appended

\* C2: a successful append_row on a table of row count n gives a column it
\* creates null at 1..n and the supplied value after them, and gives every
\* existing column the row does not name null at the position after n.
C2_NewColumnPaddedOthersNull ==
    \A vs \in RowValues :
        LET n == row_count(Self)
            r == append_row(Self, vs)
        IN  r.result.ok =>
            /\ \A k \in 1..Len(vs) :
                (/\ ~HasPosition(Self, vs[k])
                 /\ \A j \in 1..(k - 1) : vs[j].column # vs[k].column)
                => LET col == r.self.columns[PositionOf(r.self, vs[k])]
                   IN  /\ len(col) > n
                       /\ \A j \in 1..n : col.vals[j] = None
                       /\ col.vals[n + 1] = Stored(r.self.dictionary, vs[k])
            /\ \A i \in 1..Len(columns) :
                (\A k \in 1..Len(vs) : ~NamesPosition(Self, vs[k], i))
                => /\ len(r.self.columns[i]) > n
                   /\ r.self.columns[i].vals[n + 1] = None

\* The value names an existing column of another kind.
KindDiffers(self, value) ==
    /\ HasPosition(self, value)
    /\ PositionOf(self, value) <= Len(self.columns)
    /\ self.columns[PositionOf(self, value)].kind # value.value_type

\* C3: append_row of a value whose kind differs from the kind of the existing
\* column of its name returns an error and does not store the value; the kind
\* of a column is the same after every append_row.
C3_KindMismatchIsErrorKindFixed ==
    \A vs \in RowValues :
        LET r == append_row(Self, vs)
        IN  /\ \A k \in 1..Len(vs) :
                LET reached == Reached(vs, k)
                IN  (reached.result.ok /\ KindDiffers(reached.self, vs[k]))
                    => /\ IsErr(r.result)
                       /\ r.self.columns = reached.self.columns
            /\ \A i \in 1..Len(columns) :
                /\ i <= Len(r.self.columns)
                /\ r.self.columns[i].kind = columns[i].kind

C3_Witness ==
    /\ op = "append_rows"
    /\ result = Err("ColumnError")
    /\ \E vs \in RowValues : Len(vs) = 1 /\ KindDiffers(Self, vs[1])

\* append_row fails at the k-th value of the row.
FailsAt(vs, k) ==
    /\ k \in 1..Len(vs)
    /\ Reached(vs, k).result.ok
    /\ IsErr(Reached(vs, k + 1).result)

\* The entries of the values before the k-th that name position i of `self`.
EntriesGiven(self, vs, k, i) ==
    LET given == SelectSeq(SubSeq(vs, 1, k - 1), LAMBDA v : NamesPosition(self, v, i))
    IN  [m \in 1..Len(given) |-> Stored(self.dictionary, given[m])]

\* The column as it was when the row began: a new column begins as n nulls.
ColumnBefore(i) ==
    IF i <= Len(columns) THEN columns[i].vals ELSE Nulls(row_count(Self))

\* Every column holds what it held, then the entries of the values before the
\* k-th that name it, and nothing more: no rollback, no later value, no padding.
OnlyWrittenBefore(r, vs, k) ==
    \A i \in 1..Len(r.self.columns) :
        r.self.columns[i].vals = ColumnBefore(i) \o EntriesGiven(r.self, vs, k, i)

\* The columns touched before the failure are one entry longer than the others.
TouchedOneLonger(r, vs, k) ==
    \A i, j \in 1..Len(r.self.columns) :
        (/\ \E m \in 1..(k - 1) : NamesPosition(r.self, vs[m], i)
         /\ \A m \in 1..(k - 1) : ~NamesPosition(r.self, vs[m], j))
        => len(r.self.columns[i]) = len(r.self.columns[j]) + 1

\* C4 as stated: a row failing at its k-th value leaves the columns written
\* before it, applies no later value and no padding, so that the touched
\* columns are one entry longer than the untouched ones.
C4_PartialRowTouchedOneLonger ==
    \A vs \in RowValues : \A k \in 1..Len(vs) :
        FailsAt(vs, k)
        => LET r == append_row(Self, vs)
           IN  /\ IsErr(r.result)
               /\ OnlyWrittenBefore(r, vs, k)
               /\ TouchedOneLonger(r, vs, k)

\* C4 amended: a row failing at its k-th value leaves every column as it was
\* followed by the entries of the values before the k-th that name it, and
\* nothing else: each column is longer by the number of those values.
C4_PartialRowLeftAsWritten ==
    \A vs \in RowValues : \A k \in 1..Len(vs) :
        FailsAt(vs, k)
        => LET r == append_row(Self, vs)
           IN  /\ IsErr(r.result)
               /\ OnlyWrittenBefore(r, vs, k)

C4_Witness ==
    /\ op = "append_rows"
    /\ IsErr(result)
    /\ ~EqualLengths(Self)
    /\ \E vs \in RowValues : FailsAt(vs, 2)

NoValues == [values |-> None]
EmptyValues == [values |-> Some(<<>>)]

\* C5 as stated: a row with no values, its vector absent or empty, leaves the
\* table as it was.
C5_RowWithoutValuesIsNoOp ==
    \A row \in {NoValues, EmptyValues} :
        /\ append_rows(Self, <<row>>).result.ok
        /\ append_rows(Self, <<row>>).self = Self

\* C5 amended: a row whose vector of values is absent leaves the table as it
\* was; a row whose vector is empty leaves the dictionary and the index, and
\* gives one null to every column whose length is the row count.
C5_AbsentValuesIsNoOpEmptyPads ==
    /\ append_rows(Self, <<NoValues>>).result.ok
    /\ append_rows(Self, <<NoValues>>).self = Self
    /\ append_rows(Self, <<EmptyValues>>).result.ok
    /\ append_rows(Self, <<EmptyValues>>).self =
        [Self EXCEPT !.columns =
            [i \in 1..Len(@) |->
                IF Len(@[i].vals) = row_count(Self)
                THEN [@[i] EXCEPT !.vals = @ \o <<None>>]
                ELSE @[i]]]

\* A row with an empty vector was appended to a table that had columns.
C5_Witness ==
    /\ op = "append_rows"
    /\ result.ok
    /\ Len(columns) >= 1
    /\ \A i \in 1..Len(columns) : columns[i].vals[len(columns[i])] = None

(***************************************************************************)
(* Pruning, under SpecPrune.                                               *)
(***************************************************************************)
IsColumn(symbol) == symbol \in DOMAIN column_id_to_index

FieldOverlap(p) ==
    IsSome(p.field_restriction)
    => \E symbol \in Unwrap(p.field_restriction) : IsColumn(symbol)

TableNameMatch(p) ==
    IsSome(p.table_name_predicate) => id \in Unwrap(p.table_name_predicate)

\* The table has a column for the symbol and it holds I64 values.
IsTimeColumn(symbol) ==
    /\ IsColumn(symbol)
    /\ column_id_to_index[symbol] <= Len(columns)
    /\ columns[column_id_to_index[symbol]].kind = "I64"

TimesOf(symbol) ==
    LET vals == columns[column_id_to_index[symbol]].vals
    IN  {Unwrap(vals[i]) : i \in {i \in 1..Len(vals) : IsSome(vals[i])}}

TimeOverlap(p) ==
    IsSome(p.range)
    => /\ IsTimeColumn(p.time_column_id)
       /\ \E t \in TimesOf(p.time_column_id) :
            Unwrap(p.range).start <= t /\ t < Unwrap(p.range).end

RequiredColumns(p) ==
    IsSome(p.required_columns)
    => /\ Unwrap(p.required_columns).kind = "Present"
       /\ Unwrap(p.required_columns).symbols \subseteq DOMAIN column_id_to_index

\* C6: could_match_predicate, when it returns Ok, returns true exactly when
\* field overlap, table-name match, time overlap and required columns all hold.
C6_TrueExactlyWhenAllFourHold ==
    \A p \in Predicates :
        LET r == could_match_predicate(Self, p)
        IN  r.ok => r.v = (/\ FieldOverlap(p)
                           /\ TableNameMatch(p)
                           /\ TimeOverlap(p)
                           /\ RequiredColumns(p))

AllFourRestrict(p) ==
    /\ IsSome(p.field_restriction)
    /\ IsSome(p.table_name_predicate)
    /\ IsSome(p.range)
    /\ IsSome(p.required_columns)

\* could_match_predicate returned true, and returns true for a predicate that
\* restricts all four, and false for one that differs in one of them only.
C6_Witness ==
    /\ op = "could_match_predicate"
    /\ result = Ok(TRUE)
    /\ \E p \in Predicates :
        /\ AllFourRestrict(p)
        /\ could_match_predicate(Self, p) = Ok(TRUE)
        /\ could_match_predicate(Self, [p EXCEPT !.required_columns =
                                            Some(AtLeastOneMissing)]) = Ok(FALSE)

\* C7: has_columns is true for no required columns, false for AtLeastOneMissing,
\* and for Present(set) true exactly when every symbol of the set is a key of
\* the column index.
C7_RequiredColumnsCondition ==
    /\ has_columns(Self, None)
    /\ ~has_columns(Self, Some(AtLeastOneMissing))
    /\ \A symbols \in SymbolSets :
        has_columns(Self, Some(Present(symbols)))
            = (\A symbol \in symbols : IsColumn(symbol))
    /\ \A p \in Predicates :
        (could_match_predicate(Self, p) = Ok(TRUE)) => RequiredColumns(p)

\* A set of two symbols of which one only is a column, and one of two columns.
C7_Witness ==
    /\ op = "could_match_predicate"
    /\ result.ok
    /\ \E symbols \in SymbolSets, other \in SymbolSets :
        /\ Cardinality(symbols) = 2
        /\ has_columns(Self, Some(Present(symbols)))
        /\ Cardinality(other) = 2
        /\ \E symbol \in other : IsColumn(symbol)
        /\ ~has_columns(Self, Some(Present(other)))

\* C8: matches_table_name_predicate is true when table names are not
\* restricted, and otherwise true exactly when the id of the table is in the
\* restricting set: the empty set matches no table.
C8_TableNameCondition ==
    /\ matches_table_name_predicate(Self, None)
    /\ \A names \in SymbolSets :
        matches_table_name_predicate(Self, Some(names)) = (id \in names)
    /\ ~matches_table_name_predicate(Self, Some({}))
    /\ \A p \in Predicates :
        (could_match_predicate(Self, p) = Ok(TRUE)) => TableNameMatch(p)

\* could_match_predicate returned false for a predicate that restricts the table
\* names only, and to the empty set.
C8_Witness ==
    /\ op = "could_match_predicate"
    /\ result = Ok(FALSE)
    /\ Len(columns) >= 1
    /\ \E p \in Predicates :
        /\ ~IsSome(p.field_restriction) /\ ~IsSome(p.range)
        /\ ~IsSome(p.required_columns)
        /\ p.table_name_predicate = Some({})
        /\ could_match_predicate(Self, p) = Ok(FALSE)

\* C9: matches_timestamp_predicate is Ok(true) without a time range; with a
\* range and an I64 time column it is Ok(b), b true exactly when a non-null
\* time t of the column has start <= t < end.
C9_TimeOverlapHalfOpen ==
    \A p \in Predicates :
        /\ ~IsSome(p.range) => matches_timestamp_predicate(Self, p) = Ok(TRUE)
        /\ (IsSome(p.range) /\ IsTimeColumn(p.time_column_id))
            => matches_timestamp_predicate(Self, p) =
                Ok(\E t \in TimesOf(p.time_column_id) :
                        Unwrap(p.range).start <= t /\ t < Unwrap(p.range).end)

\* The time column holds a time and a null; the range that ends at the time
\* does not match, the range that begins at it does.
C9_Witness ==
    /\ op = "could_match_predicate"
    /\ \E p \in Predicates :
        /\ IsSome(p.range)
        /\ IsTimeColumn(p.time_column_id)
        /\ MaxTime \in TimesOf(p.time_column_id)
        /\ \E i \in 1..Len(columns[column_id_to_index[p.time_column_id]].vals) :
                columns[column_id_to_index[p.time_column_id]].vals[i] = None
        /\ Unwrap(p.range) = [start |-> 0, end |-> MaxTime]
        /\ matches_timestamp_predicate(Self, p) = Ok(FALSE)
        /\ matches_timestamp_predicate(Self,
                [p EXCEPT !.range = Some([start |-> MaxTime, end |-> MaxTime + 1])])
                = Ok(TRUE)

\* C10: with a time range, and no column for time_column_id or a column that is
\* not I64, could_match_predicate returns an error once the field and the
\* table-name conditions hold: neither Ok(false) nor a panic.
C10_MissingTimeColumnIsError ==
    \A p \in Predicates :
        (/\ IsSome(p.range)
         /\ ~IsTimeColumn(p.time_column_id)
         /\ FieldOverlap(p)
         /\ TableNameMatch(p))
        => IsErr(could_match_predicate(Self, p))

(***************************************************************************)
(* The prefix reorderer.  Positions are 1-based here, tag_used_set and     *)
(* prefix_map hold the Rust index plus one.                                *)
(***************************************************************************)
ReorderNames == {"city", "state", "temp"}
NameLists == SeqsUpTo(ReorderNames, MaxNames)

\* Iterator::find over tag_columns.iter().enumerate(): the first position of pc.
find(names, pc) ==
    IF \E i \in 1..Len(names) : names[i] = pc
    THEN Some(CHOOSE i \in 1..Len(names) :
                names[i] = pc /\ \A j \in 1..(i - 1) : names[j] # pc)
    ELSE None

\* [&str]::join(sep)
RECURSIVE join(_, _)
join(names, sep) ==
    IF names = <<>> THEN ""
    ELSE IF Len(names) = 1 THEN names[1]
    ELSE names[1] \o sep \o join(Tail(names), sep)

GroupColumnNotFound(column_name, all_tag_column_names) ==
    [ok |-> FALSE, err |-> "GroupColumnNotFound",
     v |-> [column_name |-> column_name,
            all_tag_column_names |-> all_tag_column_names]]

DuplicateGroupColumn(column_name) ==
    [ok |-> FALSE, err |-> "DuplicateGroupColumn", v |-> [column_name |-> column_name]]

RECURSIVE prefix_map(_, _, _, _)
\* map_prefix_column without the test of tag_used_set.
map_prefix_column_unchecked(found_location, pc, rest, names, tag_used_set, mapped) ==
    IF IsSome(found_location)
    THEN prefix_map(rest, names,
                    [tag_used_set EXCEPT ![Unwrap(found_location)] = TRUE],
                    Append(mapped, Unwrap(found_location)))
    ELSE GroupColumnNotFound(pc, join(names, ", "))

\* The closure of the map, for the name pc found at found_location.
map_prefix_column(found_location, pc, rest, names, tag_used_set, mapped) ==
    IF IsSome(found_location)
    THEN IF tag_used_set[Unwrap(found_location)]
         THEN DuplicateGroupColumn(pc)
         ELSE prefix_map(rest, names,
                         [tag_used_set EXCEPT ![Unwrap(found_location)] = TRUE],
                         Append(mapped, Unwrap(found_location)))
    ELSE GroupColumnNotFound(pc, join(names, ", "))

\* prefix_columns.iter().map(..).collect::<Result<Vec<_>>>(): the first Err ends it.
prefix_map(prefixes, names, tag_used_set, mapped) ==
    IF prefixes = <<>>
    THEN Ok([prefix_map |-> mapped, tag_used_set |-> tag_used_set])
    ELSE map_prefix_column(find(names, Head(prefixes)), Head(prefixes), Tail(prefixes),
                           names, tag_used_set, mapped)

\* tag_columns.into_iter().enumerate().filter_map(..): the names not used, from i on.
RECURSIVE unused_from(_, _, _)
unused_from(names, tag_used_set, i) ==
    IF i > Len(names) THEN <<>>
    ELSE IF tag_used_set[i] THEN unused_from(names, tag_used_set, i + 1)
    ELSE <<names[i]>> \o unused_from(names, tag_used_set, i + 1)

\* new_tag_columns extended by every name of tag_columns, used or not.
new_tag_columns_unfiltered(mapped, tag_used_set, names) ==
    [i \in 1..Len(mapped) |-> names[mapped[i]]] \o names

new_tag_columns(mapped, tag_used_set, names) ==
    [i \in 1..Len(mapped) |-> names[mapped[i]]] \o unused_from(names, tag_used_set, 1)

\* The ? on prefix_map, then Ok(new_tag_columns).
reordered(m, names) ==
    IF m.ok THEN Ok(new_tag_columns(m.v.prefix_map, m.v.tag_used_set, names)) ELSE m

reorder_prefix(prefixes, names) ==
    reordered(prefix_map(prefixes, names, [i \in 1..Len(names) |-> FALSE], <<>>), names)

InitReorder ==
    /\ dictionary = <<TableName>>
    /\ id = 1
    /\ column_id_to_index = <<>>
    /\ columns = <<>>
    /\ op = "new"
    /\ result = Ok(TRUE)
    /\ rows_appended = 0
    /\ row_failed = FALSE
    /\ prefix_columns \in NameLists
    /\ tag_columns \in NameLists

ReorderPrefix ==
    /\ op = "new"
    /\ result' = reorder_prefix(prefix_columns, tag_columns)
    /\ op' = "reorder_prefix"
    /\ UNCHANGED <<dictionary, id, column_id_to_index, columns, rows_appended, row_failed,
                   prefix_columns, tag_columns>>

NextReorder == ReorderPrefix

SpecReorder == InitReorder /\ [][NextReorder]_vars

DuplicateFree(names) ==
    \A i, j \in 1..Len(names) : names[i] = names[j] => i = j

Names(names) == {names[i] : i \in 1..Len(names)}

IsRequested(name) == name \in Names(prefix_columns)

NotRequested(name) == name \notin Names(prefix_columns)

\* C15: for duplicate-free tag_columns T and a duplicate-free prefix P of names
\* of T, reorder_prefix returns Ok, the list is a permutation of T, P is its
\* first Len(P) elements, and the rest are the other names of T in T's order;
\* an empty P gives T.
C15_PrefixThenRestInOrder ==
    (/\ op = "reorder_prefix"
     /\ DuplicateFree(tag_columns)
     /\ DuplicateFree(prefix_columns)
     /\ Names(prefix_columns) \subseteq Names(tag_columns))
    => /\ result.ok
       /\ Len(result.v) = Len(tag_columns)
       /\ Names(result.v) = Names(tag_columns)
       /\ SubSeq(result.v, 1, Len(prefix_columns)) = prefix_columns
       /\ SubSeq(result.v, Len(prefix_columns) + 1, Len(result.v))
            = SelectSeq(tag_columns, NotRequested)
       /\ prefix_columns = <<>> => result.v = tag_columns

\* A prefix of two names, not in the order of T, of a T of three names.
C15_Witness ==
    /\ op = "reorder_prefix"
    /\ tag_columns = <<"city", "state", "temp">>
    /\ prefix_columns = <<"temp", "city">>
    /\ result = Ok(<<"temp", "city", "state">>)

\* The k-th requested name is absent from T, or was requested before the k-th.
IsAbsent(k) == prefix_columns[k] \notin Names(tag_columns)
IsRepeated(k) == \E j \in 1..(k - 1) : prefix_columns[j] = prefix_columns[k]
FirstOffence(k) ==
    /\ k \in 1..Len(prefix_columns)
    /\ IsAbsent(k) \/ IsRepeated(k)
    /\ \A j \in 1..(k - 1) : ~IsAbsent(j) /\ ~IsRepeated(j)

\* T joined by ", ", built from the left.
RECURSIVE JoinedUpTo(_)
JoinedUpTo(n) ==
    IF n = 0 THEN ""
    ELSE IF n = 1 THEN tag_columns[1]
    ELSE JoinedUpTo(n - 1) \o ", " \o tag_columns[n]

\* C16: when a requested name is absent from T, or requested twice,
\* reorder_prefix returns no list but the error of the first such name:
\* GroupColumnNotFound with the name and all of T joined by ", " for an absent
\* name, DuplicateGroupColumn with the name for a name requested before.
C16_AbsentOrRepeatedIsError ==
    op = "reorder_prefix"
    => \A k \in 1..Len(prefix_columns) :
        FirstOffence(k)
        => /\ ~result.ok
           /\ IsAbsent(k)
                => result = GroupColumnNotFound(prefix_columns[k],
                                                JoinedUpTo(Len(tag_columns)))
           /\ ~IsAbsent(k) => result = DuplicateGroupColumn(prefix_columns[k])

C16_Witness ==
    /\ op = "reorder_prefix"
    /\ tag_columns = <<"city", "state">>
    /\ \/ /\ prefix_columns = <<"city", "temp">>
          /\ result.err = "GroupColumnNotFound"
          /\ result.v.column_name = "temp"
          /\ result.v.all_tag_column_names = "city, state"
       \/ /\ prefix_columns = <<"state", "state">>
          /\ result.err = "DuplicateGroupColumn"
          /\ result.v.column_name = "state"

(***************************************************************************)
(* Plan synthesis.  Strings are ordered as Rust orders them, by bytes:     *)
(* Lexicographic lists the strings of the model in that order.             *)
(***************************************************************************)
Lexicographic == <<"CA", "LA", "city", "h2o", "state", "temp", "time", "zone">>

Rank(string) == CHOOSE i \in 1..Len(Lexicographic) : Lexicographic[i] = string

StringLess(a, b) == Rank(a) < Rank(b)

\* The names left as they were collected.
unsorted(names) == names

\* Vec<Arc<String>>::sort
sort(names) == SortSeq(names, StringLess)

\* Dictionary::lookup_id of a symbol the dictionary gave out.
lookup_id(dict, symbol) == dict[symbol]

\* PartitionPredicate::has_field_restriction, should_include_field, is_time_column.
has_field_restriction(partition_predicate) == IsSome(partition_predicate.field_restriction)

should_include_field(partition_predicate, column_id) ==
    IF IsSome(partition_predicate.field_restriction)
    THEN column_id \in Unwrap(partition_predicate.field_restriction)
    ELSE TRUE

is_time_column(partition_predicate, column_id) ==
    column_id = partition_predicate.time_column_id

\* self.column_id_to_index.iter(), in ascending order of the keys: one of the
\* orders a HashMap may give, used where the code sorts what it collects.
column_ids(self) ==
    SelectSeq([i \in 1..Len(self.dictionary) |-> i],
              LAMBDA i : i \in DOMAIN self.column_id_to_index)

\* self.columns[column_index] panics when the index has no column.
has_column(self, column_id) == self.column_id_to_index[column_id] <= Len(self.columns)

is_tag(self, column_id) == self.columns[self.column_id_to_index[column_id]].kind = "Tag"

names_of(dict, ids) == [i \in 1..Len(ids) |-> lookup_id(dict, ids[i])]

is_tag_name(self, column_id) ==
    lookup_id(self.dictionary, column_id) # TIME_COLUMN_NAME /\ is_tag(self, column_id)

is_field_name(self, partition_predicate, column_id) ==
    /\ lookup_id(self.dictionary, column_id) # TIME_COLUMN_NAME
    /\ ~is_tag(self, column_id)
    /\ should_include_field(partition_predicate, column_id)

tag_and_field_column_names(self, partition_predicate) ==
    IF \E column_id \in DOMAIN self.column_id_to_index :
        /\ lookup_id(self.dictionary, column_id) # TIME_COLUMN_NAME
        /\ ~has_column(self, column_id)
    THEN Panic
    ELSE Ok([tag_columns |->
                sort(names_of(self.dictionary,
                     SelectSeq(column_ids(self), LAMBDA c : is_tag_name(self, c)))),
             field_columns |->
                sort(names_of(self.dictionary,
                     SelectSeq(column_ids(self),
                               LAMBDA c : is_field_name(self, partition_predicate, c))))])

is_field_or_time(self, partition_predicate, column_id) ==
    /\ ~is_tag(self, column_id)
    /\ \/ should_include_field(partition_predicate, column_id)
       \/ is_time_column(partition_predicate, column_id)

field_and_time_column_names(self, partition_predicate) ==
    IF \E column_id \in DOMAIN self.column_id_to_index : ~has_column(self, column_id)
    THEN Panic
    ELSE Ok(sort(names_of(self.dictionary,
                 SelectSeq(column_ids(self),
                           LAMBDA c : is_field_or_time(self, partition_predicate, c)))))

(***************************************************************************)
(* The materializer.  A RecordBatch is its fields, in order, and its rows; *)
(* a row is the sequence of its cells, each an Option, a Tag cell holding  *)
(* the string of its symbol.                                               *)
(***************************************************************************)
ArrowDataType(kind) ==
    CASE kind \in {"Tag", "String"} -> "Utf8"
      [] kind = "F64" -> "Float64"
      [] kind = "I64" -> "Int64"
      [] kind = "Bool" -> "Boolean"

ArrowField(column_name, col) == [name |-> column_name, data_type |-> ArrowDataType(col.kind)]

\* The cell of a column at a row: a Tag symbol is looked up in the dictionary.
arrow_cell(dict, col, row) ==
    IF col.kind = "Tag" /\ IsSome(col.vals[row])
    THEN Some(lookup_id(dict, Unwrap(col.vals[row])))
    ELSE col.vals[row]

\* RecordBatch::try_new: there must be a column, and the columns must have one
\* length.
try_new(self, requested) ==
    IF requested = <<>> THEN Err("ArrowError")
    ELSE IF \E i, j \in 1..Len(requested) :
        len(self.columns[requested[i].index]) # len(self.columns[requested[j].index])
    THEN Err("ArrowError")
    ELSE Ok([fields |-> [i \in 1..Len(requested) |->
                            ArrowField(requested[i].name, self.columns[requested[i].index])],
             rows |-> [row \in 1..len(self.columns[requested[1].index]) |->
                              [i \in 1..Len(requested) |->
                                  arrow_cell(self.dictionary,
                                             self.columns[requested[i].index], row)]]])

\* requested is the sequence of (column_name, column_index).
to_arrow_impl(self, requested) ==
    IF \E i \in 1..Len(requested) : requested[i].index > Len(self.columns)
    THEN Panic
    ELSE try_new(self, requested)

name_with_index(self, column_id) ==
    [name |-> lookup_id(self.dictionary, column_id),
     index |-> self.column_id_to_index[column_id]]

NameLess(a, b) == StringLess(a.name, b.name)

all_to_arrow(self) ==
    to_arrow_impl(self,
        SortSeq([i \in 1..Len(column_ids(self)) |-> name_with_index(self, column_ids(self)[i])],
                NameLess))

(***************************************************************************)
(* Logical plans.  A plan is its source batch and its stages, in the order *)
(* Source, Filter, Sort, Project, PivotSchema, each stage an Option;       *)
(* schema is the list of the column names the last stage gives.            *)
(***************************************************************************)
FieldNames(fields) == [i \in 1..Len(fields) |-> fields[i].name]

\* LogicalPlanBuilder::from(&LogicalPlan::InMemoryScan {..})
InMemoryScan(data) ==
    Ok([source |-> data, filter |-> None, sort |-> None, project |-> None,
        pivot |-> FALSE, schema |-> FieldNames(data.fields)])

\* PartitionPredicate::filter_expr: the generic expression and the time range.
filter_expr(partition_predicate) ==
    IF IsSome(partition_predicate.range) \/ IsSome(partition_predicate.expr)
    THEN Some([range |-> partition_predicate.range, expr |-> partition_predicate.expr])
    ELSE None

\* LogicalPlanBuilder::filter
filter(plan_builder, df_predicate) ==
    IF plan_builder.ok
    THEN Ok([plan_builder.v EXCEPT !.filter = Some(df_predicate)])
    ELSE plan_builder

add_datafusion_predicate(plan_builder, partition_predicate) ==
    IF IsSome(filter_expr(partition_predicate))
    THEN filter(plan_builder, Unwrap(filter_expr(partition_predicate)))
    ELSE plan_builder

\* LogicalPlanBuilder::sort(..).context(BuildingPlan)
sort_by(plan_builder, sort_exprs) ==
    IF plan_builder.ok
    THEN Ok([plan_builder.v EXCEPT !.sort = Some(sort_exprs)])
    ELSE plan_builder

\* LogicalPlanBuilder::project(..).context(BuildingPlan): the columns must be
\* columns of the input.
project(plan_builder, select_exprs) ==
    IF ~plan_builder.ok THEN plan_builder
    ELSE IF \E i \in 1..Len(select_exprs) :
                \A j \in 1..Len(plan_builder.v.schema) :
                    plan_builder.v.schema[j] # select_exprs[i]
    THEN Err("BuildingPlan")
    ELSE Ok([plan_builder.v EXCEPT !.project = Some(select_exprs), !.schema = select_exprs])

\* query::exec::make_schema_pivot
make_schema_pivot(plan) == [plan EXCEPT !.pivot = TRUE]

SeriesSetPlan(self, tags, fields, plan) ==
    IF plan.ok
    THEN Ok([table_name |-> lookup_id(self.dictionary, self.id), plan |-> plan.v,
             tag_columns |-> tags, field_columns |-> fields])
    ELSE plan

\* series_set_over with the rows ordered by time alone.
series_set_over_time_only(self, partition_predicate, tags, fields, data) ==
    IF data.ok
    THEN SeriesSetPlan(self, tags, fields,
            project(sort_by(add_datafusion_predicate(InMemoryScan(data.v), partition_predicate),
                            <<TIME_COLUMN_NAME>>),
                    tags \o fields \o <<TIME_COLUMN_NAME>>))
    ELSE data

\* series_set_over without the filter.
series_set_over_unfiltered(self, partition_predicate, tags, fields, data) ==
    IF data.ok
    THEN SeriesSetPlan(self, tags, fields,
            project(sort_by(InMemoryScan(data.v), tags \o <<TIME_COLUMN_NAME>>),
                    tags \o fields \o <<TIME_COLUMN_NAME>>))
    ELSE data

\* series_set_plan_impl from the InMemoryScan on: Filter, Order by, Selection.
series_set_over(self, partition_predicate, tags, fields, data) ==
    IF data.ok
    THEN SeriesSetPlan(self, tags, fields,
            project(sort_by(add_datafusion_predicate(InMemoryScan(data.v), partition_predicate),
                            tags \o <<TIME_COLUMN_NAME>>),
                    tags \o fields \o <<TIME_COLUMN_NAME>>))
    ELSE data

\* series_set_reordered with the tag columns put back in ascending order.
series_set_reordered_sorted(self, partition_predicate, reordered_tags, fields) ==
    IF reordered_tags.ok
    THEN series_set_over(self, partition_predicate, sort(reordered_tags.v), fields,
                         all_to_arrow(self))
    ELSE reordered_tags

\* The ? on reorder_prefix, then all_to_arrow.
series_set_reordered(self, partition_predicate, reordered_tags, fields) ==
    IF reordered_tags.ok
    THEN series_set_over(self, partition_predicate, reordered_tags.v, fields,
                         all_to_arrow(self))
    ELSE reordered_tags

\* The ? on tag_and_field_column_names, then the reorder of the tag columns.
series_set_named(self, partition_predicate, prefixes, names) ==
    IF names.ok
    THEN series_set_reordered(self, partition_predicate,
            IF IsSome(prefixes)
            THEN reorder_prefix(Unwrap(prefixes), names.v.tag_columns)
            ELSE Ok(names.v.tag_columns),
            names.v.field_columns)
    ELSE names

series_set_plan_impl(self, partition_predicate, prefixes) ==
    series_set_named(self, partition_predicate, prefixes,
                     tag_and_field_column_names(self, partition_predicate))

series_set_plan(self, partition_predicate) ==
    series_set_plan_impl(self, partition_predicate, None)

\* GroupedSeriesSetPlan with the number of tag columns as the prefix length.
GroupedSeriesSetPlan_all_tags(plan, group_columns) ==
    IF plan.ok
    THEN Ok([series_set_plan |-> plan.v,
             num_prefix_tag_group_columns |-> Len(plan.v.tag_columns)])
    ELSE plan

GroupedSeriesSetPlan(plan, group_columns) ==
    IF plan.ok
    THEN Ok([series_set_plan |-> plan.v,
             num_prefix_tag_group_columns |-> Len(group_columns)])
    ELSE plan

grouped_series_set_plan(self, partition_predicate, group_columns) ==
    GroupedSeriesSetPlan(series_set_plan_impl(self, partition_predicate, Some(group_columns)),
                         group_columns)

\* field_names_plan from the filter on: the Selection of the fields and time.
field_names_selected(plan_builder, names) ==
    IF names.ok THEN project(plan_builder, names.v) ELSE names

field_names_over(self, partition_predicate, data) ==
    IF data.ok
    THEN field_names_selected(
            add_datafusion_predicate(InMemoryScan(data.v), partition_predicate),
            field_and_time_column_names(self, partition_predicate))
    ELSE data

field_names_plan(self, partition_predicate) ==
    field_names_over(self, partition_predicate, all_to_arrow(self))

\* assert!(!partition_predicate.has_field_restriction())
tag_values_over(column_name, partition_predicate, data) ==
    IF ~data.ok THEN data
    ELSE IF has_field_restriction(partition_predicate) THEN Panic
    ELSE project(add_datafusion_predicate(InMemoryScan(data.v), partition_predicate),
                 <<column_name>>)

tag_values_plan(self, column_name, partition_predicate) ==
    tag_values_over(column_name, partition_predicate, all_to_arrow(self))

\* need_column keeping the column of time_column_id always.
need_column_time_always(self, partition_predicate, column_id) ==
    \/ is_tag(self, column_id)
    \/ column_id = partition_predicate.time_column_id

\* tag_column_names_plan: the filter_map keeps the tag columns, and the column
\* of time_column_id when the predicate has a range.
need_column(self, partition_predicate, column_id) ==
    \/ is_tag(self, column_id)
    \/ IsSome(partition_predicate.range) /\ column_id = partition_predicate.time_column_id

requested_column_ids(self, partition_predicate) ==
    {column_id \in DOMAIN self.column_id_to_index :
        need_column(self, partition_predicate, column_id)}

\* The orders in which the iterator of the HashMap may give the kept columns.
Orders(S) ==
    {order \in [1..Cardinality(S) -> S] :
        \A i, j \in 1..Cardinality(S) : order[i] = order[j] => i = j}

without_time(names) == SelectSeq(names, LAMBDA column_name : column_name # TIME_COLUMN_NAME)

pivot_built(plan_builder) ==
    IF plan_builder.ok THEN Ok(make_schema_pivot(plan_builder.v)) ELSE plan_builder

\* tag_column_names_over without the assertion.
tag_column_names_over_unasserted(partition_predicate, data) ==
    IF ~data.ok THEN data
    ELSE IF ~IsSome(partition_predicate.range)
    THEN pivot_built(add_datafusion_predicate(InMemoryScan(data.v), partition_predicate))
    ELSE pivot_built(project(
            add_datafusion_predicate(InMemoryScan(data.v), partition_predicate),
            without_time(FieldNames(data.v.fields))))

tag_column_names_over(partition_predicate, data) ==
    IF ~data.ok THEN data
    ELSE IF has_field_restriction(partition_predicate) THEN Panic
    ELSE IF ~IsSome(partition_predicate.range)
    THEN pivot_built(add_datafusion_predicate(InMemoryScan(data.v), partition_predicate))
    ELSE pivot_built(project(
            add_datafusion_predicate(InMemoryScan(data.v), partition_predicate),
            without_time(FieldNames(data.v.fields))))

\* `order` is the order in which the HashMap gave the columns that are kept.
tag_column_names_plan(self, partition_predicate, order) ==
    IF \E column_id \in DOMAIN self.column_id_to_index : ~has_column(self, column_id)
    THEN Panic
    ELSE tag_column_names_over(partition_predicate,
            to_arrow_impl(self, [i \in 1..Len(order) |-> name_with_index(self, order[i])]))

(***************************************************************************)
(* Tables that plans are built for: every row gives some of the tags city  *)
(* and state, one of the fields temp and zone, and the time.               *)
(***************************************************************************)
TagValue(column_name, string) ==
    [column |-> Some(column_name), value_type |-> "Tag", value |-> string]

FieldValue(column_name) == [column |-> Some(column_name), value_type |-> "F64", value |-> 70]

TimeValue(t) == [column |-> Some(TIME_COLUMN_NAME), value_type |-> "I64", value |-> t]

PlanTags ==
    {<<>>, <<TagValue("city", "LA")>>, <<TagValue("state", "CA")>>,
     <<TagValue("city", "LA"), TagValue("state", "CA")>>}

PlanFields == {"temp", "zone"}

PlanRows ==
    {[values |-> Some(tags \o <<FieldValue(f), TimeValue(t)>>)] :
        tags \in PlanTags, f \in PlanFields, t \in 1..MaxPlanTime}

PlanBatches == {<<row>> : row \in PlanRows}

\* The predicates: a time range, a field restriction given by the names of
\* the fields, and a generic expression, tag column = string.  The symbols are
\* those of the dictionary of the partition; a name it does not hold has none.
PlanRanges ==
    {r \in [start : 1..MaxPlanTime, end : 2..(MaxPlanTime + 1)] : r.start < r.end}

PlanExprs == {[column |-> "city", value |-> "LA"], [column |-> "state", value |-> "CA"]}

FieldRestrictions == {{"temp"}, {"zone"}, {"temp", "zone"}}

SymbolsOf(dict, names) == {i \in 1..Len(dict) : dict[i] \in names}

SymbolOf(dict, string) ==
    IF IsSome(lookup_value(dict, string)) THEN Unwrap(lookup_value(dict, string)) ELSE 0

RestrictionOf(dict, names) ==
    IF IsSome(names) THEN Some(SymbolsOf(dict, Unwrap(names))) ELSE None

PlanPredicate(dict, range, names, expr, table_names, required) ==
    [range |-> range,
     time_column_id |-> SymbolOf(dict, TIME_COLUMN_NAME),
     field_restriction |-> RestrictionOf(dict, names),
     table_name_predicate |-> table_names,
     required_columns |-> required,
     expr |-> expr]

\* The predicates the plans are asked for.
PlanPredicates(dict) ==
    {PlanPredicate(dict, range, names, expr, None, None) :
        range \in {None, Some([start |-> 1, end |-> 2])},
        names \in {None, Some({"temp"})},
        expr \in {None}}

\* Those of them without a field restriction.
UnrestrictedPredicates(dict) ==
    {partition_predicate \in PlanPredicates(dict) :
        ~IsSome(partition_predicate.field_restriction)}

GroupNames == {"state", "temp"}

GroupColumns == SeqsUpTo(GroupNames, MaxGroupColumns)

\* What a plan operation returned: a plan, or the error.
Status(r) == IF r.ok THEN Ok(TRUE) ELSE Err(r.err)

AppendPlanRows ==
    /\ Running
    /\ row_count(Self) < MaxPlanRowCount
    /\ \E rows \in PlanBatches : Returned(append_rows(Self, rows))
    /\ op' = "append_rows"
    /\ UNCHANGED <<id, prefix_columns, tag_columns>>

Planned(name, r) ==
    /\ result' = Status(r)
    /\ op' = name
    /\ UNCHANGED <<dictionary, id, column_id_to_index, columns, rows_appended, row_failed,
                   prefix_columns, tag_columns>>

SeriesSetPlanCalled ==
    /\ Running
    /\ \E partition_predicate \in PlanPredicates(dictionary) :
        Planned("series_set_plan", series_set_plan(Self, partition_predicate))

GroupedSeriesSetPlanCalled ==
    /\ Running
    /\ \E partition_predicate \in UnrestrictedPredicates(dictionary),
          group_columns \in GroupColumns :
        Planned("grouped_series_set_plan",
                grouped_series_set_plan(Self, partition_predicate, group_columns))

FieldNamesPlanCalled ==
    /\ Running
    /\ \E partition_predicate \in PlanPredicates(dictionary) :
        Planned("field_names_plan", field_names_plan(Self, partition_predicate))

TagValuesPlanCalled ==
    /\ Running
    /\ \E partition_predicate \in PlanPredicates(dictionary), column_name \in {"city", "state"} :
        Planned("tag_values_plan", tag_values_plan(Self, column_name, partition_predicate))

TagColumnNamesPlanCalled ==
    /\ Running
    /\ \E partition_predicate \in PlanPredicates(dictionary) :
        \E order \in Orders(requested_column_ids(Self, partition_predicate)) :
            Planned("tag_column_names_plan",
                    tag_column_names_plan(Self, partition_predicate, order))

NextSeries == AppendPlanRows \/ SeriesSetPlanCalled

SpecSeries == Init /\ [][NextSeries]_vars

NextGrouped == AppendPlanRows \/ GroupedSeriesSetPlanCalled

SpecGrouped == Init /\ [][NextGrouped]_vars

NextFields == AppendPlanRows \/ FieldNamesPlanCalled

SpecFields == Init /\ [][NextFields]_vars

NextTags == AppendPlanRows \/ TagValuesPlanCalled \/ TagColumnNamesPlanCalled

SpecTags == Init /\ [][NextTags]_vars

\* The predicates a table is pruned for: one that restricts nothing, and those
\* that restrict the time, the fields, the table name or the required columns.
PrunePredicates(dict) ==
    {PlanPredicate(dict, range, None, None, None, None) :
        range \in {None} \cup {Some(r) : r \in PlanRanges}}
    \cup {PlanPredicate(dict, None, Some({f}), None, None, None) : f \in PlanFields}
    \cup {PlanPredicate(dict, None, None, None, Some({t}), None) : t \in 1..2}
    \cup {PlanPredicate(dict, None, None, None, None, Some(required)) :
            required \in {AtLeastOneMissing, Present(SymbolsOf(dict, {"city"}))}}

CouldMatchPredicateCalled ==
    /\ Running
    /\ \E partition_predicate \in PrunePredicates(dictionary) :
        result' = could_match_predicate(Self, partition_predicate)
    /\ op' = "could_match_predicate"
    /\ UNCHANGED <<dictionary, id, column_id_to_index, columns, rows_appended, row_failed,
                   prefix_columns, tag_columns>>

PrunedSeriesSetPlanCalled ==
    /\ Running
    /\ \E partition_predicate \in PrunePredicates(dictionary) :
        Planned("series_set_plan", series_set_plan(Self, partition_predicate))

NextPrunedPlans == AppendPlanRows \/ CouldMatchPredicateCalled \/ PrunedSeriesSetPlanCalled

SpecPrunedPlans == Init /\ [][NextPrunedPlans]_vars

(***************************************************************************)
(* The execution engine: what running a plan gives.  The stages run in     *)
(* the order Source, Filter, Sort, Project, PivotSchema.  A stage that     *)
(* names a column its input does not have fails the execution.             *)
(***************************************************************************)
Contains(names, column_name) == \E i \in 1..Len(names) : names[i] = column_name

Index(names, column_name) == CHOOSE i \in 1..Len(names) : names[i] = column_name

\* The columns a filter expression names.
FilterColumns(df_predicate) ==
    (IF IsSome(df_predicate.range) THEN {TIME_COLUMN_NAME} ELSE {})
    \cup (IF IsSome(df_predicate.expr) THEN {Unwrap(df_predicate.expr).column} ELSE {})

InRange(cell, range) ==
    IsSome(cell) /\ range.start <= Unwrap(cell) /\ Unwrap(cell) < range.end

\* A row passes when its time is in [start, end) and its column has the value.
Passes(names, row, df_predicate) ==
    /\ IsSome(df_predicate.range) =>
            InRange(row[Index(names, TIME_COLUMN_NAME)], Unwrap(df_predicate.range))
    /\ IsSome(df_predicate.expr) =>
            row[Index(names, Unwrap(df_predicate.expr).column)]
                = Some(Unwrap(df_predicate.expr).value)

\* Ascending, nulls first.
CellLess(data_type, x, y) ==
    IF ~IsSome(x) THEN IsSome(y)
    ELSE /\ IsSome(y)
         /\ IF data_type = "Utf8" THEN StringLess(Unwrap(x), Unwrap(y))
            ELSE Unwrap(x) < Unwrap(y)

RECURSIVE RowLess(_, _, _, _)
RowLess(fields, keys, a, b) ==
    IF keys = <<>> THEN FALSE
    ELSE IF CellLess(fields[Head(keys)].data_type, a[Head(keys)], b[Head(keys)]) THEN TRUE
    ELSE IF CellLess(fields[Head(keys)].data_type, b[Head(keys)], a[Head(keys)]) THEN FALSE
    ELSE RowLess(fields, Tail(keys), a, b)

Positions(names, wanted) == [i \in 1..Len(wanted) |-> Index(names, wanted[i])]

Filtered(plan) ==
    IF IsSome(plan.filter)
    THEN SelectSeq(plan.source.rows,
                   LAMBDA row : Passes(FieldNames(plan.source.fields), row, Unwrap(plan.filter)))
    ELSE plan.source.rows

Sorted(plan) ==
    IF IsSome(plan.sort)
    THEN SortSeq(Filtered(plan),
                 LAMBDA a, b : RowLess(plan.source.fields,
                                       Positions(FieldNames(plan.source.fields),
                                                 Unwrap(plan.sort)), a, b))
    ELSE Filtered(plan)

Projection(fields, rows, positions) ==
    [fields |-> [i \in 1..Len(positions) |-> fields[positions[i]]],
     rows |-> [r \in 1..Len(rows) |-> [i \in 1..Len(positions) |-> rows[r][positions[i]]]]]

Projected(plan) ==
    IF IsSome(plan.project)
    THEN Projection(plan.source.fields, Sorted(plan),
                    Positions(FieldNames(plan.source.fields), Unwrap(plan.project)))
    ELSE [fields |-> plan.source.fields, rows |-> Sorted(plan)]

\* SchemaPivot: one row per column of its input that has a non-null value,
\* holding the name of the column.
NonNull(batch) ==
    SelectSeq([i \in 1..Len(batch.fields) |-> i],
              LAMBDA i : \E r \in 1..Len(batch.rows) : IsSome(batch.rows[r][i]))

Pivot(batch) ==
    [fields |-> <<[name |-> "non_null_column", data_type |-> "Utf8"]>>,
     rows |-> [k \in 1..Len(NonNull(batch)) |-> <<Some(batch.fields[NonNull(batch)[k]].name)>>]]

StageColumns(plan) ==
    (IF IsSome(plan.filter) THEN FilterColumns(Unwrap(plan.filter)) ELSE {})
    \cup (IF IsSome(plan.sort)
          THEN {Unwrap(plan.sort)[i] : i \in 1..Len(Unwrap(plan.sort))} ELSE {})
    \cup (IF IsSome(plan.project)
          THEN {Unwrap(plan.project)[i] : i \in 1..Len(Unwrap(plan.project))} ELSE {})

Execute(plan) ==
    IF \E column_name \in StageColumns(plan) :
            ~Contains(FieldNames(plan.source.fields), column_name)
    THEN Err("Execution")
    ELSE IF plan.pivot THEN Ok(Pivot(Projected(plan)))
    ELSE Ok(Projected(plan))

(***************************************************************************)
(* The plans: what the properties speak of.                                *)
(***************************************************************************)
Elements(q) == {q[i] : i \in 1..Len(q)}

Ascending(names) ==
    \A i, j \in 1..Len(names) : i < j => StringLess(names[i], names[j])

\* The names of the columns of the table that have the ids.
NamesOfIds(self, ids) == {lookup_id(self.dictionary, column_id) : column_id \in ids}

KindOf(self, column_id) == self.columns[self.column_id_to_index[column_id]].kind

NameOf(self, column_id) == lookup_id(self.dictionary, column_id)

\* Predicates with every field restriction over the fields, with and without
\* a range.
RestrictedPredicates(dict) ==
    {PlanPredicate(dict, range, names, None, None, None) :
        range \in {None, Some([start |-> 1, end |-> 2])},
        names \in {None} \cup {Some(S) : S \in SUBSET PlanFields}}

\* C12: series_set_plan returns as tag_columns the names of the Tag columns
\* other than time, as field_columns the names of the columns that are not Tag,
\* not time, and pass the field restriction of the predicate, each list in
\* ascending order of the names whatever the order the columns were inserted
\* in, and its plan projects the tag columns, then the field columns, then time.
C12_SeriesSetNamesSortedAndProjected ==
    \A partition_predicate \in RestrictedPredicates(dictionary) :
        LET r == series_set_plan(Self, partition_predicate)
        IN  r.ok =>
              /\ Elements(r.v.tag_columns)
                    = NamesOfIds(Self, {c \in DOMAIN column_id_to_index :
                          KindOf(Self, c) = "Tag" /\ NameOf(Self, c) # TIME_COLUMN_NAME})
              /\ Elements(r.v.field_columns)
                    = NamesOfIds(Self, {c \in DOMAIN column_id_to_index :
                          /\ KindOf(Self, c) # "Tag"
                          /\ NameOf(Self, c) # TIME_COLUMN_NAME
                          /\ should_include_field(partition_predicate, c)})
              /\ Ascending(r.v.tag_columns)
              /\ Ascending(r.v.field_columns)
              /\ r.v.plan.project
                    = Some(r.v.tag_columns \o r.v.field_columns \o <<TIME_COLUMN_NAME>>)

\* The column of the name comes before the column of the other name.
InsertedBefore(self, first, second) ==
    /\ IsSome(lookup_value(self.dictionary, first))
    /\ IsSome(lookup_value(self.dictionary, second))
    /\ Unwrap(lookup_value(self.dictionary, first)) \in DOMAIN self.column_id_to_index
    /\ Unwrap(lookup_value(self.dictionary, second)) \in DOMAIN self.column_id_to_index
    /\ self.column_id_to_index[Unwrap(lookup_value(self.dictionary, first))]
         < self.column_id_to_index[Unwrap(lookup_value(self.dictionary, second))]

\* series_set_plan returned a plan for a table whose tags and whose fields were
\* both inserted in descending order of the names, and a restriction drops a field.
C12_Witness ==
    /\ op = "series_set_plan"
    /\ result.ok
    /\ InsertedBefore(Self, "state", "city")
    /\ InsertedBefore(Self, "zone", "temp")
    /\ series_set_plan(Self, PlanPredicate(dictionary, None, None, None, None, None)).v.tag_columns
            = <<"city", "state">>
    /\ series_set_plan(Self, PlanPredicate(dictionary, None, None, None, None, None)).v.field_columns
            = <<"temp", "zone">>
    /\ series_set_plan(Self, PlanPredicate(dictionary, None, Some({"zone"}), None, None, None)).v.field_columns
            = <<"zone">>

\* Predicates with and without a filter: a time range, a generic expression.
FilterPredicates(dict) ==
    {PlanPredicate(dict, range, None, expr, None, None) :
        range \in {None} \cup {Some(r) : r \in PlanRanges},
        expr \in {None} \cup {Some(e) : e \in PlanExprs}}

\* The cells of a row at the positions 1..n: its tag columns.
TagsOf(row, n) == [i \in 1..n |-> row[i]]

\* Row a is not after row b in the order of the first n columns, ascending
\* with nulls first, then of the column at position t.
NotAfter(fields, a, b, n, t) ==
    \A k \in (1..n) \cup {t} :
        (\A m \in ((1..n) \cup {t}) : (m < k => a[m] = b[m]))
            => ~CellLess(fields[k].data_type, b[k], a[k])

\* C13: the rows that the plan of series_set_plan gives are ordered by the tag
\* columns in the listed order, ascending with nulls first, then by time
\* ascending: the rows with the same values in every tag column, null counting
\* as a value, are contiguous and in ascending order of time.
C13_SeriesContiguousTimeAscending ==
    \A partition_predicate \in FilterPredicates(dictionary) :
        LET r == series_set_plan(Self, partition_predicate)
        IN  r.ok =>
              LET out == Execute(r.v.plan)
                  n == Len(r.v.tag_columns)
                  t == Len(r.v.tag_columns) + Len(r.v.field_columns) + 1
              IN  out.ok =>
                    /\ \A i, j \in 1..Len(out.v.rows) :
                         i < j => NotAfter(out.v.fields, out.v.rows[i], out.v.rows[j], n, t)
                    /\ \A i, j, k \in 1..Len(out.v.rows) :
                         (i < k /\ k < j
                            /\ TagsOf(out.v.rows[i], n) = TagsOf(out.v.rows[j], n))
                           => TagsOf(out.v.rows[k], n) = TagsOf(out.v.rows[i], n)
                    /\ \A i, j \in 1..Len(out.v.rows) :
                         (i < j /\ TagsOf(out.v.rows[i], n) = TagsOf(out.v.rows[j], n))
                           => Unwrap(out.v.rows[i][t]) <= Unwrap(out.v.rows[j][t])

\* series_set_plan returned a plan for a table of three rows written as: a
\* series at the later time, another series with a null tag, the first series
\* at the earlier time; the plan gives the three rows.
C13_Witness ==
    /\ op = "series_set_plan"
    /\ result.ok
    /\ LET r == series_set_plan(Self, PlanPredicate(dictionary, None, None, None, None, None))
           data == all_to_arrow(Self)
       IN  /\ r.ok /\ data.ok
           /\ r.v.tag_columns = <<"city", "state">>
           /\ Len(data.v.rows) = 3
           /\ Len(Execute(r.v.plan).v.rows) = 3
           /\ Execute(r.v.plan).v.rows[1][2] = None
           /\ columns[column_id_to_index[SymbolOf(dictionary, "city")]].vals[1]
                = columns[column_id_to_index[SymbolOf(dictionary, "city")]].vals[3]
           /\ columns[column_id_to_index[SymbolOf(dictionary, "state")]].vals[1]
                = columns[column_id_to_index[SymbolOf(dictionary, "state")]].vals[3]
           /\ columns[column_id_to_index[SymbolOf(dictionary, "state")]].vals[2] = None
           /\ columns[column_id_to_index[SymbolOf(dictionary, "state")]].vals[1] # None
           /\ columns[column_id_to_index[SymbolOf(dictionary, "time")]].vals[1] = Some(2)
           /\ columns[column_id_to_index[SymbolOf(dictionary, "time")]].vals[3] = Some(1)

\* A row of a batch as the function from the names of its columns to its cells.
Named(fields, row) ==
    [column_name \in {fields[i].name : i \in 1..Len(fields)} |->
        row[Index(FieldNames(fields), column_name)]]

\* The row satisfies the filter of the predicate: its time is in [start, end)
\* of the range, and its column has the value of the generic expression.
Satisfies(named, partition_predicate) ==
    /\ IsSome(partition_predicate.range) =>
        /\ TIME_COLUMN_NAME \in DOMAIN named
        /\ IsSome(named[TIME_COLUMN_NAME])
        /\ Unwrap(partition_predicate.range).start <= Unwrap(named[TIME_COLUMN_NAME])
        /\ Unwrap(named[TIME_COLUMN_NAME]) < Unwrap(partition_predicate.range).end
    /\ IsSome(partition_predicate.expr) =>
        /\ Unwrap(partition_predicate.expr).column \in DOMAIN named
        /\ named[Unwrap(partition_predicate.expr).column]
              = Some(Unwrap(partition_predicate.expr).value)

\* C14: the rows that the plan of series_set_plan gives are the rows of the
\* table that satisfy the filter of the predicate, its generic expression and
\* its time range [start, end), each as many times as the table holds it, and
\* no other row; with no filter they are all the rows of the table.
C14_SeriesRowsAreTheRowsPassingTheFilter ==
    \A partition_predicate \in FilterPredicates(dictionary) :
        LET r == series_set_plan(Self, partition_predicate)
        IN  r.ok =>
              LET out == Execute(r.v.plan)
                  data == all_to_arrow(Self).v
              IN  out.ok =>
                    LET given == [i \in 1..Len(out.v.rows) |->
                                     Named(out.v.fields, out.v.rows[i])]
                        held == [i \in 1..Len(data.rows) |-> Named(data.fields, data.rows[i])]
                    IN  /\ \A i \in 1..Len(held) :
                             Cardinality({j \in 1..Len(given) : given[j] = held[i]})
                               = IF Satisfies(held[i], partition_predicate)
                                 THEN Cardinality({j \in 1..Len(held) : held[j] = held[i]})
                                 ELSE 0
                        /\ \A j \in 1..Len(given) : \E i \in 1..Len(held) : held[i] = given[j]
                        /\ (~IsSome(partition_predicate.range) /\ ~IsSome(partition_predicate.expr))
                             => Len(given) = Len(held)

\* series_set_plan returned a plan for a table of three rows, one in the range
\* [1, 2) with the city LA, one in the range without a city, one with the city
\* at the time 2: the plan of city = LA and [1, 2) gives one row, the plan
\* without a filter three.
C14_Witness ==
    /\ op = "series_set_plan"
    /\ result.ok
    /\ LET unfiltered == series_set_plan(Self,
                PlanPredicate(dictionary, None, None, None, None, None))
           filtered == series_set_plan(Self,
                PlanPredicate(dictionary, Some([start |-> 1, end |-> 2]), None,
                              Some([column |-> "city", value |-> "LA"]), None, None))
       IN  /\ unfiltered.ok /\ filtered.ok
           /\ Execute(unfiltered.v.plan).ok /\ Execute(filtered.v.plan).ok
           /\ Len(Execute(unfiltered.v.plan).v.rows) = 3
           /\ Len(Execute(filtered.v.plan).v.rows) = 1
           /\ \E i, j \in 1..3 :
                /\ columns[column_id_to_index[SymbolOf(dictionary, "city")]].vals[i] = None
                /\ columns[column_id_to_index[SymbolOf(dictionary, "time")]].vals[i] = Some(1)
                /\ columns[column_id_to_index[SymbolOf(dictionary, "city")]].vals[j] # None
                /\ columns[column_id_to_index[SymbolOf(dictionary, "time")]].vals[j] = Some(2)

\* The lists of group columns: tags, a field and time, repeated names included.
GroupLists == SeqsUpTo({"city", "state", "temp", TIME_COLUMN_NAME}, MaxGroupColumns)

\* The names of the Tag columns of the table.
TagNames(self) ==
    NamesOfIds(self, {c \in DOMAIN self.column_id_to_index : KindOf(self, c) = "Tag"})

\* Predicates with and without a field restriction.
FieldPredicates(dict) ==
    {PlanPredicate(dict, None, names, None, None, None) :
        names \in {None, Some({"zone"})}}

\* C17: when every group column is a tag column of the table and none is
\* repeated, grouped_series_set_plan returns, where series_set_plan returns a
\* plan, num_prefix_tag_group_columns = the number of group columns,
\* tag_columns = reorder_prefix(group_columns, tag columns of series_set_plan),
\* which begins with the group columns in the requested order, and the
\* field_columns of series_set_plan; when a group column is not a tag column of
\* the table (a field, time) or is repeated, it returns the grouping error.
C17_GroupedPrefixAndGroupingError ==
    \A partition_predicate \in FieldPredicates(dictionary) :
      LET s == series_set_plan(Self, partition_predicate)
          tags == TagNames(Self)
      IN  \A group_columns \in GroupLists :
        LET r == grouped_series_set_plan(Self, partition_predicate, group_columns)
        IN  IF /\ Elements(group_columns) \subseteq tags
               /\ DuplicateFree(group_columns)
            THEN s.ok =>
                   /\ r.ok
                   /\ r.v.num_prefix_tag_group_columns = Len(group_columns)
                   /\ r.v.series_set_plan.tag_columns
                        = reorder_prefix(group_columns, s.v.tag_columns).v
                   /\ SubSeq(r.v.series_set_plan.tag_columns, 1, Len(group_columns))
                        = group_columns
                   /\ r.v.series_set_plan.field_columns = s.v.field_columns
                   /\ r.v.series_set_plan.table_name = s.v.table_name
            ELSE /\ ~r.ok
                 /\ r.err \in {"GroupColumnNotFound", "DuplicateGroupColumn"}

\* grouped_series_set_plan returned a plan for a table with the tags city and
\* state: grouped by state, the tag columns are state, city and the prefix is
\* of one column.
C17_Witness ==
    /\ op = "grouped_series_set_plan"
    /\ result.ok
    /\ LET r == grouped_series_set_plan(Self,
                    PlanPredicate(dictionary, None, None, None, None, None), <<"state">>)
       IN  /\ r.ok
           /\ r.v.num_prefix_tag_group_columns = 1
           /\ r.v.series_set_plan.tag_columns = <<"state", "city">>

\* C18: the plan of field_names_plan projects the columns that are not Tag and
\* pass the field restriction of the predicate, in ascending order of the
\* names, then the time column as the last column, whatever the names of the
\* fields; no tag column is projected, time is projected also when the field
\* restriction does not list it, and a row has null for a field it did not give.
C18_FieldsSortedThenTimeLast ==
    \A partition_predicate \in RestrictedPredicates(dictionary) :
        LET r == field_names_plan(Self, partition_predicate)
        IN  r.ok =>
              LET selected == Unwrap(r.v.project)
                  fields == SubSeq(selected, 1, Len(selected) - 1)
              IN  /\ IsSome(r.v.project)
                  /\ Len(selected) >= 1
                  /\ selected[Len(selected)] = TIME_COLUMN_NAME
                  /\ Ascending(fields)
                  /\ Elements(fields)
                        = NamesOfIds(Self, {c \in DOMAIN column_id_to_index :
                              /\ KindOf(Self, c) # "Tag"
                              /\ NameOf(Self, c) # TIME_COLUMN_NAME
                              /\ should_include_field(partition_predicate, c)})
                  /\ Elements(selected) \cap TagNames(Self) = {}
                  /\ Execute(r.v).ok =>
                        \A i \in 1..Len(Execute(r.v).v.rows), k \in 1..Len(selected) :
                            Execute(r.v).v.rows[i][k] = None
                                <=> Named(all_to_arrow(Self).v.fields,
                                          Filtered(r.v)[i])[selected[k]] = None

\* Predicates without a field restriction, with and without a range and a
\* generic expression.
TagPredicates(dict) ==
    {PlanPredicate(dict, range, None, expr, None, None) :
        range \in {None, Some([start |-> 1, end |-> 2])},
        expr \in {None, Some([column |-> "city", value |-> "LA"])}}

\* C19: the plan of tag_column_names_plan gives the schema pivot the Tag
\* columns of the table and no other: the time column is materialized exactly
\* when the predicate has a range, and is then projected away ahead of the
\* pivot; no other column that is not Tag is materialized.
C19_PivotInputIsTheTagColumns ==
    \A partition_predicate \in TagPredicates(dictionary) :
        \A order \in Orders(requested_column_ids(Self, partition_predicate)) :
            LET r == tag_column_names_plan(Self, partition_predicate, order)
            IN  r.ok =>
                  LET materialized == Elements(FieldNames(r.v.source.fields))
                  IN  /\ r.v.pivot
                      /\ (TIME_COLUMN_NAME \in materialized)
                            <=> IsSome(partition_predicate.range)
                      /\ materialized \ {TIME_COLUMN_NAME} = TagNames(Self)
                      /\ IsSome(r.v.project) <=> IsSome(partition_predicate.range)
                      /\ Elements(r.v.schema) = TagNames(Self)
                      /\ Len(r.v.schema) = Cardinality(TagNames(Self))
                      /\ Execute(r.v).ok =>
                            Elements(Execute(r.v).v.rows)
                                \subseteq {<<Some(n)>> : n \in TagNames(Self)}

\* tag_column_names_plan returned a plan for a table with the tags city and
\* state, a field and time: with a range the plan materializes time with the
\* tags and projects the tags, without a range it materializes the tags alone.
C19_Witness ==
    /\ op = "tag_column_names_plan"
    /\ result.ok
    /\ TagNames(Self) = {"city", "state"}
    /\ \E ranged \in TagPredicates(dictionary), open \in TagPredicates(dictionary) :
        /\ IsSome(ranged.range) /\ ~IsSome(open.range)
        /\ \E order \in Orders(requested_column_ids(Self, ranged)) :
            /\ tag_column_names_plan(Self, ranged, order).ok
            /\ Len(tag_column_names_plan(Self, ranged, order).v.source.fields) = 3
            /\ tag_column_names_plan(Self, ranged, order).v.source.fields[1].name
                    = TIME_COLUMN_NAME
            /\ Len(tag_column_names_plan(Self, ranged, order).v.schema) = 2
        /\ \E order \in Orders(requested_column_ids(Self, open)) :
            /\ tag_column_names_plan(Self, open, order).ok
            /\ Len(tag_column_names_plan(Self, open, order).v.source.fields) = 2

\* Predicates with a field restriction.
FieldRestricted(dict) ==
    {PlanPredicate(dict, range, Some(names), None, None, None) :
        range \in {None, Some([start |-> 1, end |-> 2])},
        names \in {{}, {"temp"}}}

\* C20: for a predicate with a field restriction, tag_column_names_plan never
\* returns a plan: it panics on the assertion once the columns are
\* materialized, and returns the error of the materialization when that fails;
\* tag_values_plan does the same.
C20_FieldRestrictionNeverAPlan ==
    LET all == all_to_arrow(Self)
    IN
    \A partition_predicate \in FieldRestricted(dictionary) :
        /\ \A order \in Orders(requested_column_ids(Self, partition_predicate)) :
            LET r == tag_column_names_plan(Self, partition_predicate, order)
                data == to_arrow_impl(Self,
                            [i \in 1..Len(order) |-> name_with_index(Self, order[i])])
            IN  /\ ~r.ok
                /\ data.ok => IsPanic(r)
                /\ ~data.ok => r = data
        /\ \A column_name \in {"city", "state", "temp"} :
            LET r == tag_values_plan(Self, column_name, partition_predicate)
            IN  /\ ~r.ok
                /\ all.ok => IsPanic(r)
                /\ ~all.ok => r = all

\* tag_column_names_plan was called with a field restriction on a table with a
\* tag column, and panicked.
C20_Witness ==
    /\ op = "tag_column_names_plan"
    /\ IsPanic(result)
    /\ TagNames(Self) # {}
    /\ \E partition_predicate \in FieldRestricted(dictionary) :
        \E order \in Orders(requested_column_ids(Self, partition_predicate)) :
            /\ to_arrow_impl(Self, [i \in 1..Len(order) |-> name_with_index(Self, order[i])]).ok
            /\ IsPanic(tag_column_names_plan(Self, partition_predicate, order))

\* Running the plan gives no row.
NoRows(r) == (r.ok /\ Execute(r.v).ok) => Execute(r.v).v.rows = <<>>

\* C11: when could_match_predicate returns false for a predicate, each of the
\* plans built for the table and that predicate (series_set_plan,
\* grouped_series_set_plan, field_names_plan, tag_values_plan,
\* tag_column_names_plan) gives no row when it is run.
C11_PrunedTableGivesNoRows ==
    \A partition_predicate \in PrunePredicates(dictionary) :
        could_match_predicate(Self, partition_predicate) = Ok(FALSE) =>
            /\ LET r == series_set_plan(Self, partition_predicate)
               IN  (r.ok /\ Execute(r.v.plan).ok) => Execute(r.v.plan).v.rows = <<>>
            /\ \A group_columns \in GroupColumns :
                LET r == grouped_series_set_plan(Self, partition_predicate, group_columns)
                IN  (r.ok /\ Execute(r.v.series_set_plan.plan).ok)
                        => Execute(r.v.series_set_plan.plan).v.rows = <<>>
            /\ NoRows(field_names_plan(Self, partition_predicate))
            /\ \A column_name \in {"city", "state"} :
                NoRows(tag_values_plan(Self, column_name, partition_predicate))
            /\ \A order \in Orders(requested_column_ids(Self, partition_predicate)) :
                NoRows(tag_column_names_plan(Self, partition_predicate, order))

(***************************************************************************)
(* to_arrow: the record batch of the columns asked for by name.           *)
(***************************************************************************)
\* One name of column_names_with_index: lookup_value, then the index.
name_to_index(self, column_name) ==
    IF ~IsSome(lookup_value(self.dictionary, column_name))
    THEN Err("ColumnNameNotFoundInDictionary")
    ELSE IF Unwrap(lookup_value(self.dictionary, column_name))
                \notin DOMAIN self.column_id_to_index
    THEN Err("InternalNoColumnInIndex")
    ELSE Ok([name |-> column_name,
             index |-> self.column_id_to_index[
                            Unwrap(lookup_value(self.dictionary, column_name))]])

\* collect::<Result<Vec<_>>>: the first Err of the names in order, or all of them.
column_names_with_index(self, requested_columns) ==
    IF \E i \in 1..Len(requested_columns) : ~name_to_index(self, requested_columns[i]).ok
    THEN name_to_index(self, requested_columns[
            CHOOSE i \in 1..Len(requested_columns) :
                /\ ~name_to_index(self, requested_columns[i]).ok
                /\ \A j \in 1..(i - 1) : name_to_index(self, requested_columns[j]).ok])
    ELSE Ok([i \in 1..Len(requested_columns) |->
                name_to_index(self, requested_columns[i]).v])

to_arrow_requested(self, columns_with_index) ==
    IF columns_with_index.ok THEN to_arrow_impl(self, columns_with_index.v)
    ELSE columns_with_index

to_arrow(self, requested_columns) ==
    IF requested_columns = <<>>
    THEN all_to_arrow(self)
    ELSE to_arrow_requested(self, column_names_with_index(self, requested_columns))

\* Rows that name the columns city and time, each as a tag or as an integer.
ArrowValues ==
    {v \in Values : /\ v.column \in {Some("city"), Some(TIME_COLUMN_NAME)}
                    /\ v.value_type \in {"Tag", "I64"}}

ArrowBatches == {<<[values |-> Some(vs)]>> : vs \in SeqsUpTo(ArrowValues, MaxRowValues)}

RequestedColumns == SeqsUpTo({"city", TIME_COLUMN_NAME}, 2)

AppendArrowRows == AppendRowsFrom(ArrowBatches)

ToArrowCalled ==
    /\ Running
    /\ \E requested_columns \in RequestedColumns :
        Planned("to_arrow", to_arrow(Self, requested_columns))

NextArrow == AppendArrowRows \/ ToArrowCalled

SpecArrow == Init /\ [][NextArrow]_vars

\* The lists of names of columns of the table.
RequestedOf(self) ==
    {q \in RequestedColumns : Elements(q) \subseteq NamesOfIds(self, DOMAIN self.column_id_to_index)}

\* The entry of the column of the name at a row, a tag as its string.
EntryOf(self, column_name, row) ==
    arrow_cell(self.dictionary,
               self.columns[self.column_id_to_index[SymbolOf(self.dictionary, column_name)]],
               row)

\* C21: after appends that all succeeded, to_arrow with a list of names of
\* columns returns a batch with one column for each name, in the order of the
\* list, each of row_count entries, the entry of a row being what the column
\* holds for the row, a tag as its string and null where nothing was given;
\* with the empty list, and all_to_arrow, the batch has every column of the
\* table in ascending order of the names.
C21_ToArrowReturnsWhatWasAppended ==
    (~row_failed /\ columns # <<>>) =>
        /\ \A requested_columns \in RequestedOf(Self) \ {<<>>} :
            LET r == to_arrow(Self, requested_columns)
            IN  /\ r.ok
                /\ FieldNames(r.v.fields) = requested_columns
                /\ Len(r.v.rows) = row_count(Self)
                /\ \A row \in 1..Len(r.v.rows), k \in 1..Len(requested_columns) :
                     r.v.rows[row][k] = EntryOf(Self, requested_columns[k], row)
        /\ to_arrow(Self, <<>>) = all_to_arrow(Self)
        /\ all_to_arrow(Self).ok
        /\ Ascending(FieldNames(all_to_arrow(Self).v.fields))
        /\ Elements(FieldNames(all_to_arrow(Self).v.fields))
                = NamesOfIds(Self, DOMAIN column_id_to_index)

\* What a step keeps: the id, the symbols of the dictionary, the position of
\* every column the index knows, the kind of every column and its entries.
Grows ==
    /\ id' = id
    /\ Len(dictionary') >= Len(dictionary)
    /\ \A i \in 1..Len(dictionary) : dictionary'[i] = dictionary[i]
    /\ \A column_id \in DOMAIN column_id_to_index :
        /\ column_id \in DOMAIN column_id_to_index'
        /\ column_id_to_index'[column_id] = column_id_to_index[column_id]
    /\ Len(columns') >= Len(columns)
    /\ \A i \in 1..Len(columns) :
        /\ columns'[i].kind = columns[i].kind
        /\ len(columns'[i]) >= len(columns[i])
        /\ SubSeq(columns'[i].vals, 1, len(columns[i])) = columns[i].vals

\* C22: a table only grows: across every call of append_rows, failed or not, a
\* column stays at its position with its kind, the entries a column holds are
\* neither changed nor removed, and the id of the table does not change.
C22_TableOnlyGrows == [][Grows]_vars

\* A call failed, a later call added a column to a table of two columns that
\* hold entries.
C22_Witness ==
    /\ op = "append_rows"
    /\ result.ok
    /\ row_failed
    /\ rows_appended >= 2
    /\ Len(columns) >= 2
    /\ \A i \in 1..Len(columns) : len(columns[i]) >= 1
    /\ \E i \in 1..Len(columns) : columns[i].kind = "Tag"

\* C23: in every reachable state, whether the calls of append_row succeeded or
\* failed, a failure while creating a column from a value included, every
\* symbol of the column index maps to a position of columns, two symbols map to
\* two positions, and every position is mapped by a symbol.
C23_IndexConsistentWithColumns ==
    /\ \A column_id \in DOMAIN column_id_to_index :
        column_id_to_index[column_id] \in 1..Len(columns)
    /\ \A a, b \in DOMAIN column_id_to_index :
        column_id_to_index[a] = column_id_to_index[b] => a = b
    /\ \A i \in 1..Len(columns) :
        \E column_id \in DOMAIN column_id_to_index : column_id_to_index[column_id] = i

\* The number of entries the column at position i holds, 0 when there is none.
LenAt(self, i) == IF i <= Len(self.columns) THEN len(self.columns[i]) ELSE 0

\* The entry at row p of the column at position i of `after` is a value that
\* the row appended between `before` and `after` wrote.
WroteAt(before, after, i, p) ==
    /\ i <= Len(after.columns)
    /\ p <= len(after.columns[i])
    /\ p > LenAt(before, i)
    /\ after.columns[i].vals[p] # None

\* C24: when a call of append_row fails part-way and a later call succeeds, no
\* row position of the table holds a value of the failed row in one column and
\* a value of the later row in another.
C24_FailedRowNotMixedWithLaterRow ==
    \A failed \in RowValues, later \in ShortRowValues :
        LET a == append_row(Self, failed)
            b == append_row(a.self, later)
        IN  (IsErr(a.result) /\ b.result.ok) =>
                \A i, j \in 1..Len(b.self.columns), p \in 1..(MaxRowCount + 2) :
                    ~(WroteAt(Self, a.self, i, p) /\ WroteAt(a.self, b.self, j, p))

\* The lists of tags to group by.
TagGroupLists == {g \in SeqsUpTo({"city", "state"}, MaxGroupColumns) : DuplicateFree(g)}

\* The cells of a row of the batch in the columns of the names.
CellsOf(fields, row, names) ==
    [i \in 1..Len(names) |-> row[Index(FieldNames(fields), names[i])]]

\* The rows with the same cells in the columns of the names are contiguous.
Contiguous(batch, names) ==
    \A i, j, k \in 1..Len(batch.rows) :
        (i < k /\ k < j
            /\ CellsOf(batch.fields, batch.rows[i], names)
                = CellsOf(batch.fields, batch.rows[j], names))
          => CellsOf(batch.fields, batch.rows[k], names)
                = CellsOf(batch.fields, batch.rows[i], names)

\* C25: in the rows that the plan of grouped_series_set_plan gives, the rows
\* with the same values in the group columns are contiguous, the rows of one
\* series, with the same values in every tag column, are contiguous, and the
\* rows of a series are in ascending order of time.
C25_GroupsThenSeriesContiguous ==
    \A partition_predicate \in
            {PlanPredicate(dictionary, range, None, None, None, None) :
                range \in {None, Some([start |-> 1, end |-> MaxPlanTime + 1])}} :
        \A group_columns \in TagGroupLists :
            LET r == grouped_series_set_plan(Self, partition_predicate, group_columns)
            IN  r.ok =>
                  LET out == Execute(r.v.series_set_plan.plan)
                      tags == r.v.series_set_plan.tag_columns
                  IN  out.ok =>
                        /\ r.v.num_prefix_tag_group_columns = Len(group_columns)
                        /\ Contiguous(out.v, group_columns)
                        /\ Contiguous(out.v, tags)
                        /\ \A i, j \in 1..Len(out.v.rows) :
                             (i < j /\ CellsOf(out.v.fields, out.v.rows[i], tags)
                                        = CellsOf(out.v.fields, out.v.rows[j], tags))
                               => Unwrap(CellsOf(out.v.fields, out.v.rows[i],
                                                 <<TIME_COLUMN_NAME>>)[1])
                                    <= Unwrap(CellsOf(out.v.fields, out.v.rows[j],
                                                      <<TIME_COLUMN_NAME>>)[1])

\* grouped_series_set_plan returned a plan for a table of three rows whose
\* states are not contiguous in the order of (city, state): grouped by state,
\* the plan gives the three rows with the state first.
C25_Witness ==
    /\ op = "grouped_series_set_plan"
    /\ result.ok
    /\ LET p == PlanPredicate(dictionary, None, None, None, None, None)
           s == series_set_plan(Self, p)
           r == grouped_series_set_plan(Self, p, <<"state">>)
       IN  /\ s.ok /\ r.ok
           /\ Execute(s.v.plan).ok /\ Execute(r.v.series_set_plan.plan).ok
           /\ Len(Execute(r.v.series_set_plan.plan).v.rows) = 3
           /\ r.v.series_set_plan.tag_columns = <<"state", "city">>
           /\ ~Contiguous(Execute(s.v.plan).v, <<"state">>)

\* The lists of values of the rows that have values, in order.
RECURSIVE ValuesOf(_)
ValuesOf(rows) ==
    IF rows = <<>> THEN <<>>
    ELSE IF IsSome(Head(rows).values)
    THEN <<Unwrap(Head(rows).values)>> \o ValuesOf(Tail(rows))
    ELSE ValuesOf(Tail(rows))

\* The table after append_row for each of the first n lists of values, in order.
RECURSIVE AfterRows(_, _, _)
AfterRows(self, values, n) ==
    IF n = 0 THEN self
    ELSE append_row(AfterRows(self, values, n - 1), values[n]).self

\* What append_row returns for the n-th list of values after those before it.
RowResult(self, values, n) == append_row(AfterRows(self, values, n - 1), values[n]).result

\* C26: append_rows applies the rows in the order given and stops at the first
\* row for which append_row fails: the rows before it are applied whole, the
\* rows after it are not applied, and the error of that row is returned; when
\* no row fails every row is applied and Ok is returned.
C26_AppendRowsStopsAtFirstFailingRow ==
    \A rows \in RowBatches :
        \A n \in 0..Len(ValuesOf(rows)) :
            (\A m \in 1..n : RowResult(Self, ValuesOf(rows), m).ok) =>
                IF n = Len(ValuesOf(rows))
                THEN append_rows(Self, rows)
                        = [self |-> AfterRows(Self, ValuesOf(rows), n), result |-> Ok(TRUE),
                           count |-> n, failed |-> FALSE]
                ELSE ~RowResult(Self, ValuesOf(rows), n + 1).ok =>
                        append_rows(Self, rows)
                            = [self |-> AfterRows(Self, ValuesOf(rows), n + 1),
                               result |-> RowResult(Self, ValuesOf(rows), n + 1),
                               count |-> n, failed |-> TRUE]

\* One call of append_rows applied more rows than the calls of one row could
\* and then returned the error of a later row of the same call.
C26_Witness ==
    /\ op = "append_rows"
    /\ IsErr(result)
    /\ row_failed
    /\ rows_appended > MaxRowCount

\* C27: could_match_predicate checks field overlap, table name, time overlap
\* and required columns in this order and stops at the first that is false:
\* when the field or the table-name condition is false it returns false
\* whatever the time column is, missing or not I64 included; when both hold
\* and there is a range, a missing or not-I64 time column makes the call fail
\* even if the required columns are not all there; and when the time check
\* gives false the call returns false.
C27_ConditionsInOrderStopAtFirstFalse ==
    \A p \in Predicates :
        LET r == could_match_predicate(Self, p)
        IN  /\ (~FieldOverlap(p) \/ ~TableNameMatch(p)) => r = Ok(FALSE)
            /\ (/\ FieldOverlap(p)
                /\ TableNameMatch(p)
                /\ IsSome(p.range)
                /\ ~IsTimeColumn(p.time_column_id))
               => /\ ~r.ok
                  /\ (/\ IsColumn(p.time_column_id)
                      /\ column_id_to_index[p.time_column_id] <= Len(columns))
                     => r = Err("ColumnPredicateEvaluation")
            /\ (/\ FieldOverlap(p)
                /\ TableNameMatch(p)
                /\ IsSome(p.range)
                /\ IsTimeColumn(p.time_column_id)
                /\ ~TimeOverlap(p))
               => r = Ok(FALSE)

\* could_match_predicate returned false for a predicate with a range whose
\* time column is a column of the table that is not I64 and whose field
\* restriction names no column of the table; without the field restriction,
\* and with required columns that are not there, the call fails.
C27_Witness ==
    /\ op = "could_match_predicate"
    /\ result = Ok(FALSE)
    /\ \E p \in Predicates :
        /\ IsSome(p.range)
        /\ p.time_column_id \in DOMAIN column_id_to_index
        /\ ~IsTimeColumn(p.time_column_id)
        /\ ~FieldOverlap(p)
        /\ p.required_columns = None
        /\ could_match_predicate(Self, p) = Ok(FALSE)
        /\ could_match_predicate(Self, [p EXCEPT !.field_restriction = None,
                                                 !.required_columns = Some(AtLeastOneMissing)])
                = Err("ColumnPredicateEvaluation")
====
